---- MODULE Spec2Model ----
(***************************************************************************)
(* A model of the MCP marketplace backend: the OAuth 2.1 authorization     *)
(* server (client registry, authorization-code flow with PKCE), the token  *)
(* codec with the MCP auth gate, and the payment gate with its ledger.     *)
(*                                                                         *)
(* Handlers are async functions: every `await` on the database or on the   *)
(* ledger is a point where another request may run, so a handler is a      *)
(* sequence of steps, one per awaited store operation, and each request    *)
(* slot carries its position (pc) and its local variables.                 *)
(***************************************************************************)
EXTENDS Integers, FiniteSets, Sequences, TLC

\* ------------------------------------------------------------------ domains

NULL == "null"

Principals == {"u1", "u2"}

\* client ids are a prefix and a random suffix: `dcr_<hex>` / `mcp_<uid>_<hex>`
ClientIdPrefix == [dcr_1 |-> "dcr_", mcp_1 |-> "mcp_"]
ClientIds == DOMAIN ClientIdPrefix
DcrClientIds == {c \in ClientIds : ClientIdPrefix[c] = "dcr_"}
StaticClientIds == {c \in ClientIds : ClientIdPrefix[c] = "mcp_"}

\* an absent table row, an absent local value
NoRow == [null |-> TRUE]

RedirectUris == {"https://a/cb", "https://b/cb"}
Verifiers == {1, 2}
StateParams == {"st"}
AuthIds == {"a1", "a2"}
CodeIds == {"c1", "c2"}
RefreshIds == {"rt1", "rt2"}
DecideReqs == {"d1", "d2"}
TokenReqs == {"t1", "t2"}

\* time is counted in ticks of ten minutes
MaxTime == 3
AuthCodeTTL == 1
PendingTTL == 1
RefreshTTL == 4320
AccessTTL == 6

\* ------------------------------------------------------------------ state

VARIABLES
    now,                    \* Date.now(), in ticks
    clients,                \* table oauth_clients: client_id -> row or NULL
    pendingAuthorizations,  \* the in-memory Map auth_id -> {state, expiresAt}
    authIdsIssued,          \* auth ids handed out so far (random ids never repeat)
    authorizeQuery,         \* auth id -> the query of the authorize request that made it
    authCodes,              \* table authorization_codes: code -> row or NULL
    refreshTokens,          \* table refresh_tokens: id -> row or NULL
    issued,                 \* token responses sent: the access tokens issued
    decide,                 \* the authorizeCallback requests
    tok,                    \* the token requests
    gate,                   \* the last MCP request and what verifyMCPToken answered
    ledger,                 \* the UserBalance objects of the ledger, per owner
    settled,                \* what pay_for_endpoint moved for each payer so far
    txCount,                \* ledger transactions executed (the digests handed out)
    payments,               \* table payment_transactions: payment_id -> row
    balances,               \* table user_balances: user -> balance
    credited,               \* what the deposits credited to each local balance so far
    calls,                  \* the callApiEndpoint invocations
    approvals,              \* the approve_payment invocations
    refresh,                \* the token requests with grant_type refresh_token
    revoke,                 \* revokeOAuthClient calls between their two updates
    endpoints,              \* EndpointManager.endpoints: name -> the endpoint
    tools,                  \* EndpointManager.tools: name -> the definition listed
    added,                  \* the last addEndpoint call and how it ended
    deposits,               \* the creditDeposit requests being handled
    creditedTx              \* tx_hash -> how often creditDeposit credited it

varsO == <<now, clients, pendingAuthorizations, authIdsIssued, authorizeQuery, authCodes,
           refreshTokens, issued, decide, tok>>

varsG == <<gate>>

varsP == <<ledger, settled, txCount, payments, balances, credited, calls,
          approvals>>

varsR == <<refresh, revoke>>

varsE == <<endpoints, tools, added>>

varsD == <<deposits, creditedTx>>

vars == <<varsO, varsG, varsP, varsR, varsE, varsD>>

\* ------------------------------------------------------------------ helpers

\* crypto.createHash("sha256").update(code_verifier).digest("base64url"):
\* an injective map of the verifiers onto challenges, none a fixed point
S256(v) == (v * 3) % 7

Challenges == {S256(v) : v \in Verifiers}

\* crypto.randomBytes(32): the secret issued with a client id
SecretOf == [dcr_1 |-> "secret_dcr_1", mcp_1 |-> "secret_mcp_1"]
Secrets == {SecretOf[c] : c \in ClientIds}

\* bcrypt.hash / bcrypt.compare
BcryptHash(s) == [bcrypt |-> s]
BcryptCompare(s, h) == h = BcryptHash(s)

\* client_id.startsWith("dcr_")
IsDCRClient(c) == ClientIdPrefix[c] = "dcr_"

\* a fresh random identifier: one that was never handed out
Fresh(S, used) == CHOOSE x \in S \ used : TRUE

IdleDecide ==
    [pc |-> "idle", auth_id |-> NULL, user |-> NULL, client_id |-> NULL,
     redirect_uri |-> NULL, code_challenge |-> 0, scope |-> <<>>,
     approved |-> FALSE, client |-> NoRow, assigned |-> FALSE, result |-> NULL,
     code |-> NULL]

IdleTok ==
    [pc |-> "idle", code |-> NULL, redirect_uri |-> NULL, client_id |-> NULL,
     client_secret |-> NULL, code_verifier |-> 0, client |-> NoRow,
     authCode |-> NoRow, result |-> NULL, afterSuccess |-> FALSE]

InitO ==
    /\ now = 0
    /\ clients = [c \in ClientIds |-> NoRow]
    /\ pendingAuthorizations = [a \in AuthIds |-> NoRow]
    /\ authIdsIssued = {}
    /\ authorizeQuery = [a \in AuthIds |-> NoRow]
    /\ authCodes = [c \in CodeIds |-> NoRow]
    /\ refreshTokens = [t \in RefreshIds |-> NoRow]
    /\ issued = {}
    /\ decide = [d \in DecideReqs |-> IdleDecide]
    /\ tok = [t \in TokenReqs |-> IdleTok]

\* ------------------------------------------------------------------ clock

Tick ==
    /\ now < MaxTime
    /\ now' = now + 1
    /\ UNCHANGED <<clients, pendingAuthorizations, authIdsIssued, authorizeQuery, authCodes,
                   refreshTokens, issued, decide, tok, gate>>
    /\ UNCHANGED <<varsP, varsR, varsE, varsD>>

\* ------------------------------------------------------------------ client registry

\* createDCRClient: insert with user_id null
RegisterClient ==
    /\ \E c \in DcrClientIds :
         /\ clients[c] = NoRow
         /\ clients' = [clients EXCEPT ![c] =
                [client_secret_hash |-> BcryptHash(SecretOf[c]),
                 user_id |-> NULL, revoked |-> FALSE]]
    /\ UNCHANGED <<now, pendingAuthorizations, authIdsIssued, authorizeQuery, authCodes,
                   refreshTokens, issued, decide, tok>>
    /\ UNCHANGED <<varsG, varsE, varsD, varsP, varsR>>

\* generateClientCredentials -> createOAuthClient: insert owned by the caller
GenerateClientCredentials(u) ==
    /\ \E c \in StaticClientIds :
         /\ clients[c] = NoRow
         /\ clients' = [clients EXCEPT ![c] =
                [client_secret_hash |-> BcryptHash(SecretOf[c]),
                 user_id |-> u, revoked |-> FALSE]]
    /\ UNCHANGED <<now, pendingAuthorizations, authIdsIssued, authorizeQuery, authCodes,
                   refreshTokens, issued, decide, tok>>
    /\ UNCHANGED <<varsG, varsE, varsD, varsP, varsR>>

\* a lookup that returns revoked clients as well
GetOAuthClientAnyRow(c) == clients[c]

\* getOAuthClient: select where client_id = c and revoked = false
GetOAuthClient(c) ==
    IF clients[c] # NoRow /\ ~clients[c].revoked THEN clients[c] ELSE NoRow

\* verifyOAuthClient: the row, when the secret matches its hash
VerifyOAuthClient(c, secret) ==
    LET client == GetOAuthClient(c) IN
    IF client = NoRow THEN NoRow
    ELSE IF ~BcryptCompare(secret, client.client_secret_hash) THEN NoRow
    ELSE client

\* an assignment that overwrites an owner already set
AssignDCRClientToUserAlways(c, u) ==
    IF clients[c] # NoRow THEN [clients EXCEPT ![c].user_id = u] ELSE clients

\* assignDCRClientToUser: update set user_id = u where client_id = c and user_id is null
AssignDCRClientToUser(c, u) ==
    IF clients[c] # NoRow /\ clients[c].user_id = NULL
    THEN [clients EXCEPT ![c].user_id = u]
    ELSE clients

\* ------------------------------------------------------------------ authorize (begin)

\* authorize: validate the query, then store a pending authorization under
\* crypto.randomBytes(16), drawn from the ids not handed out yet
Authorize(ids, response_type, client_id, redirect_uri, code_challenge, method, st) ==
    /\ response_type = "code"
    /\ client_id # NULL /\ redirect_uri # NULL /\ code_challenge # 0
    /\ method = "S256"
    /\ ids \ authIdsIssued # {}
    /\ LET authId == Fresh(ids, authIdsIssued) IN
         /\ pendingAuthorizations' = [pendingAuthorizations EXCEPT ![authId] =
                [state |-> st, expiresAt |-> now + PendingTTL]]
         /\ authIdsIssued' = authIdsIssued \cup {authId}
         /\ authorizeQuery' = [authorizeQuery EXCEPT ![authId] =
                [client_id |-> client_id, redirect_uri |-> redirect_uri,
                 code_challenge |-> code_challenge]]
    /\ UNCHANGED <<now, clients, authCodes, refreshTokens, issued, decide, tok>>
    /\ UNCHANGED <<varsG, varsE, varsD, varsP, varsR>>

\* authorize: an unsupported response_type or challenge method is answered
\* with 400 and stores nothing
AuthorizeRejected(response_type, method) ==
    /\ response_type # "code" \/ method # "S256"
    /\ UNCHANGED <<now, clients, pendingAuthorizations, authIdsIssued, authorizeQuery, authCodes,
                   refreshTokens, issued, decide, tok>>
    /\ UNCHANGED <<varsG, varsE, varsD, varsP, varsR>>

\* ------------------------------------------------------------------ authorizeCallback (decide)

\* a callback that leaves the handle in the map
DeletePendingOmitted(a) == pendingAuthorizations

\* pendingAuthorizations.delete(auth_id)
DeletePending(a) == [pendingAuthorizations EXCEPT ![a] = NoRow]

\* up to the first await: look the handle up, delete it, answer a denial
DecideStart(d, a, u, c, uri, ch, scope, approved) ==
    /\ decide[d].pc = "idle"
    /\ LET req == [decide[d] EXCEPT !.auth_id = a, !.user = u, !.client_id = c,
                       !.redirect_uri = uri, !.code_challenge = ch,
                       !.scope = scope, !.approved = approved]
           pendingAuth == pendingAuthorizations[a]
       IN
       IF pendingAuth = NoRow \/ now > pendingAuth.expiresAt
       THEN /\ decide' = [decide EXCEPT ![d] =
                   [req EXCEPT !.pc = "done", !.result = "invalid_request"]]
            /\ UNCHANGED pendingAuthorizations
       ELSE /\ pendingAuthorizations' = DeletePending(a)
            /\ decide' = [decide EXCEPT ![d] =
                   IF ~approved
                   THEN [req EXCEPT !.pc = "done", !.result = "access_denied"]
                   ELSE [req EXCEPT !.pc = "getClient"]]
    /\ UNCHANGED <<now, clients, authIdsIssued, authorizeQuery, authCodes, refreshTokens, issued, tok>>
    /\ UNCHANGED <<varsG, varsE, varsD, varsP, varsR>>

\* let client = await getOAuthClient(client_id)
DecideGetClient(d) ==
    /\ decide[d].pc = "getClient"
    /\ LET client == GetOAuthClient(decide[d].client_id) IN
       decide' = [decide EXCEPT ![d] =
           IF client = NoRow
           THEN [@ EXCEPT !.pc = "done", !.result = "unauthorized_client"]
           ELSE IF IsDCRClient(@.client_id) /\ client.user_id = NULL
           THEN [@ EXCEPT !.pc = "assign", !.client = client]
           ELSE [@ EXCEPT !.pc = "issue", !.client = client]]
    /\ UNCHANGED <<now, clients, pendingAuthorizations, authIdsIssued, authorizeQuery, authCodes,
                   refreshTokens, issued, tok>>
    /\ UNCHANGED <<varsG, varsE, varsD, varsP, varsR>>

\* await assignDCRClientToUser(client_id, authReq.user.id)
DecideAssign(d) ==
    /\ decide[d].pc = "assign"
    /\ clients' = AssignDCRClientToUser(decide[d].client_id, decide[d].user)
    /\ decide' = [decide EXCEPT ![d].pc = "reload", ![d].assigned = TRUE]
    /\ UNCHANGED <<now, pendingAuthorizations, authIdsIssued, authorizeQuery, authCodes,
                   refreshTokens, issued, tok>>
    /\ UNCHANGED <<varsG, varsE, varsD, varsP, varsR>>

\* client = await getOAuthClient(client_id), after the assignment
DecideReload(d) ==
    /\ decide[d].pc = "reload"
    /\ LET client == GetOAuthClient(decide[d].client_id) IN
       decide' = [decide EXCEPT ![d] =
           IF client = NoRow
           THEN [@ EXCEPT !.pc = "done", !.result = "server_error", !.client = NoRow]
           ELSE [@ EXCEPT !.pc = "issue", !.client = client]]
    /\ UNCHANGED <<now, clients, pendingAuthorizations, authIdsIssued, authorizeQuery, authCodes,
                   refreshTokens, issued, tok>>
    /\ UNCHANGED <<varsG, varsE, varsD, varsP, varsR>>

\* the scope parameter is a string of words separated by " ", here the
\* sequence of its words; <<>> is an absent or empty parameter
DefaultScope == <<"mcp:tools", "mcp:resources">>
ScopeParams == {<<>>, <<"mcp:tools">>}

\* (scope || "mcp:tools mcp:resources").split(" ")
SplitScope(scope) == IF scope = <<>> THEN DefaultScope ELSE scope

\* the row createAuthorizationCode inserts
NewAuthorizationCode(u, c, uri, ch, scopes) ==
    [user_id |-> u, client_id |-> c, redirect_uri |-> uri, code_challenge |-> ch,
     scopes |-> scopes, expires_at |-> now + AuthCodeTTL, used |-> FALSE]

CodesIssued == {c \in CodeIds : authCodes[c] # NoRow}

\* an ownership check that lets every principal through
ClientBelongsToAnyone(client, u) == TRUE

\* client.user_id !== authReq.user.id, negated
ClientBelongsTo(client, u) == client.user_id = u

\* the ownership check, then createAuthorizationCode and the redirect
DecideIssue(d) ==
    /\ decide[d].pc = "issue"
    /\ IF ~ClientBelongsTo(decide[d].client, decide[d].user)
       THEN /\ decide' = [decide EXCEPT ![d].pc = "done",
                                        ![d].result = "unauthorized_client"]
            /\ UNCHANGED authCodes
       ELSE /\ CodeIds \ CodesIssued # {}
            /\ LET code == Fresh(CodeIds, CodesIssued) IN
                 /\ authCodes' = [authCodes EXCEPT ![code] =
                        NewAuthorizationCode(decide[d].user, decide[d].client_id,
                            decide[d].redirect_uri, decide[d].code_challenge,
                            SplitScope(decide[d].scope))]
                 /\ decide' = [decide EXCEPT ![d].pc = "done", ![d].result = "code",
                                             ![d].code = code]
    /\ UNCHANGED <<now, clients, pendingAuthorizations, authIdsIssued, authorizeQuery,
                   refreshTokens, issued, tok>>
    /\ UNCHANGED <<varsG, varsE, varsD, varsP, varsR>>


\* ------------------------------------------------------------------ token (authorization_code)

\* a token endpoint that does not look at the verifier
PkceNotChecked(code_verifier, code_challenge) == TRUE

\* the PKCE check: sha256(code_verifier), base64url, against the stored challenge
PkceMatches(code_verifier, code_challenge) == S256(code_verifier) = code_challenge

\* the request arrives; the parameters are validated before the first await
TokenStart(t, code, uri, c, secret, verifier) ==
    /\ tok[t].pc = "idle"
    /\ LET req == [tok[t] EXCEPT !.code = code, !.redirect_uri = uri,
                       !.client_id = c, !.client_secret = secret,
                       !.code_verifier = verifier,
                       !.afterSuccess = (\E i \in issued : i.code = code)]
       IN tok' = [tok EXCEPT ![t] =
              IF verifier = 0
              THEN [req EXCEPT !.pc = "done", !.result = "invalid_request"]
              ELSE [req EXCEPT !.pc = "verify"]]
    /\ UNCHANGED <<now, clients, pendingAuthorizations, authIdsIssued, authorizeQuery, authCodes,
                   refreshTokens, issued, decide>>
    /\ UNCHANGED <<varsG, varsE, varsD, varsP, varsR>>

\* const client = await verifyOAuthClient(client_id, client_secret)
TokenVerifyClient(t) ==
    /\ tok[t].pc = "verify"
    /\ LET client == VerifyOAuthClient(tok[t].client_id, tok[t].client_secret) IN
       tok' = [tok EXCEPT ![t] =
           IF client = NoRow
           THEN [@ EXCEPT !.pc = "done", !.result = "invalid_client"]
           ELSE [@ EXCEPT !.pc = "select", !.client = client]]
    /\ UNCHANGED <<now, clients, pendingAuthorizations, authIdsIssued, authorizeQuery, authCodes,
                   refreshTokens, issued, decide>>
    /\ UNCHANGED <<varsG, varsE, varsD, varsP, varsR>>

\* a store that never finds a code expired
IsExpiredNever(expires_at, t) == FALSE

\* new Date(authCode.expires_at) < new Date()
IsExpired(expires_at, t) == expires_at < t

\* consumeAuthorizationCode, first statement: select where code = c and used = false,
\* then the expiry check on the row read
TokenConsumeSelect(t) ==
    /\ tok[t].pc = "select"
    /\ LET row == authCodes[tok[t].code] IN
       tok' = [tok EXCEPT ![t] =
           IF row = NoRow \/ row.used
           THEN [@ EXCEPT !.pc = "done", !.result = "invalid_grant"]
           ELSE IF IsExpired(row.expires_at, now)
           THEN [@ EXCEPT !.pc = "done", !.result = "invalid_grant"]
           ELSE [@ EXCEPT !.pc = "update", !.authCode = row]]
    /\ UNCHANGED <<now, clients, pendingAuthorizations, authIdsIssued, authorizeQuery, authCodes,
                   refreshTokens, issued, decide>>
    /\ UNCHANGED <<varsG, varsE, varsD, varsP, varsR>>

\* a store that hands the code out and leaves it unused
MarkUsedOmitted(code) == authCodes

\* update authorization_codes set used = true where code = c
MarkUsed(code) ==
    [authCodes EXCEPT ![code] = IF @ = NoRow THEN @ ELSE [@ EXCEPT !.used = TRUE]]

\* consumeAuthorizationCode, second statement: update set used = true where code = c
TokenConsumeUpdate(t) ==
    /\ tok[t].pc = "update"
    /\ authCodes' = MarkUsed(tok[t].code)
    /\ tok' = [tok EXCEPT ![t].pc = "checks"]
    /\ UNCHANGED <<now, clients, pendingAuthorizations, authIdsIssued, authorizeQuery,
                   refreshTokens, issued, decide>>
    /\ UNCHANGED <<varsG, varsE, varsD, varsP, varsR>>

\* a token endpoint that checks the verifier and nothing else of the code
TokenChecksPkceOnly(req) ==
    IF ~PkceMatches(req.code_verifier, req.authCode.code_challenge)
    THEN "invalid_grant"
    ELSE "ok"

\* the error the checks on the consumed code answer with, or "ok"
TokenChecks(req) ==
    IF req.authCode.client_id # req.client_id THEN "invalid_grant"
    ELSE IF req.client.user_id # req.authCode.user_id THEN "unauthorized_client"
    ELSE IF req.authCode.redirect_uri # req.redirect_uri THEN "invalid_grant"
    ELSE IF ~PkceMatches(req.code_verifier, req.authCode.code_challenge)
         THEN "invalid_grant"
    ELSE "ok"

RefreshIssued == {r \in RefreshIds : refreshTokens[r] # NoRow}

\* the checks, then createAccessToken, createRefreshToken and the response
TokenFinish(t) ==
    /\ tok[t].pc = "checks"
    /\ LET res == TokenChecks(tok[t]) IN
       IF res # "ok"
       THEN /\ tok' = [tok EXCEPT ![t].pc = "done", ![t].result = res]
            /\ UNCHANGED <<refreshTokens, issued>>
       ELSE /\ RefreshIds \ RefreshIssued # {}
            /\ LET rt == Fresh(RefreshIds, RefreshIssued) IN
                 /\ refreshTokens' = [refreshTokens EXCEPT ![rt] =
                        [user_id |-> tok[t].authCode.user_id,
                         client_id |-> tok[t].client_id,
                         scopes |-> tok[t].authCode.scopes,
                         expires_at |-> now + RefreshTTL, revoked |-> FALSE,
                         last_used_at |-> -1]]
                 /\ issued' = issued \cup
                        {[req |-> t, code |-> tok[t].code,
                          sub |-> tok[t].authCode.user_id,
                          client_id |-> tok[t].client_id,
                          scope |-> tok[t].authCode.scopes,
                          exp |-> now + AccessTTL, refresh_token |-> rt]}
            /\ tok' = [tok EXCEPT ![t].pc = "done", ![t].result = "ok"]
    /\ UNCHANGED <<now, clients, pendingAuthorizations, authIdsIssued, authorizeQuery, authCodes,
                   decide>>
    /\ UNCHANGED <<varsG, varsE, varsD, varsP, varsR>>

\* ------------------------------------------------------------------ token (refresh_token grant) and revocation

RefreshReqs == {"r1", "r2"}

IdleRefresh ==
    [pc |-> "idle", refresh_token |-> NULL, client_id |-> NULL,
     client_secret |-> NULL, client |-> NoRow, tokenData |-> NoRow,
     result |-> NULL, issuedAtStart |-> FALSE, revokedAtStart |-> FALSE,
     knownClient |-> FALSE]

InitR ==
    /\ refresh = [r \in RefreshReqs |-> IdleRefresh]
    /\ revoke = {}

\* grant_type refresh_token with all three parameters present; the request
\* notes whether the token had been issued, whether it was revoked, and whether
\* the credentials were those of a registered client when it arrived
RefreshStart(r, refresh_token, c, secret) ==
    /\ refresh[r].pc = "idle"
    /\ refresh' = [refresh EXCEPT ![r] =
          [IdleRefresh EXCEPT
              !.pc = "verify", !.refresh_token = refresh_token,
              !.client_id = c, !.client_secret = secret,
              !.issuedAtStart = (refreshTokens[refresh_token] # NoRow),
              !.revokedAtStart = (refreshTokens[refresh_token] # NoRow
                                    /\ refreshTokens[refresh_token].revoked),
              !.knownClient = (clients[c] # NoRow
                                 /\ BcryptCompare(secret, clients[c].client_secret_hash))]]
    /\ UNCHANGED <<varsO, varsG, varsE, varsD, varsP, revoke>>

\* const client = await verifyOAuthClient(client_id, client_secret)
RefreshVerifyClient(r) ==
    /\ refresh[r].pc = "verify"
    /\ LET client == VerifyOAuthClient(refresh[r].client_id, refresh[r].client_secret) IN
       refresh' = [refresh EXCEPT ![r] =
           IF client = NoRow
           THEN [@ EXCEPT !.pc = "done", !.result = "invalid_client"]
           ELSE [@ EXCEPT !.pc = "token", !.client = client]]
    /\ UNCHANGED <<varsO, varsG, varsE, varsD, varsP, revoke>>

\* verifyRefreshToken: select where token_hash = h and revoked = false, then the
\* expiry check on the row
VerifyRefreshToken(refresh_token, t) ==
    LET row == refreshTokens[refresh_token] IN
    IF row = NoRow \/ row.revoked THEN NoRow
    ELSE IF row.expires_at < t THEN NoRow
    ELSE row

\* a token store that consumes the refresh token it has verified
TouchRefreshTokenConsuming(refresh_token, t) ==
    [refreshTokens EXCEPT ![refresh_token] =
        IF @ = NoRow THEN @ ELSE [@ EXCEPT !.last_used_at = t, !.revoked = TRUE]]

\* verifyRefreshToken, on a valid row: update set last_used_at = now where
\* token_hash = h
TouchRefreshToken(refresh_token, t) ==
    [refreshTokens EXCEPT ![refresh_token] =
        IF @ = NoRow THEN @ ELSE [@ EXCEPT !.last_used_at = t]]

\* const tokenData = await verifyRefreshToken(refresh_token); the update of
\* last_used_at writes a column nothing else reads or writes, so it is taken
\* together with the select
RefreshVerifyToken(r) ==
    /\ refresh[r].pc = "token"
    /\ LET tokenData == VerifyRefreshToken(refresh[r].refresh_token, now) IN
         /\ refresh' = [refresh EXCEPT ![r] =
               IF tokenData = NoRow
               THEN [@ EXCEPT !.pc = "done", !.result = "invalid_grant"]
               ELSE [@ EXCEPT !.pc = "checks", !.tokenData = tokenData]]
         /\ refreshTokens' = IF tokenData = NoRow THEN refreshTokens
                              ELSE TouchRefreshToken(refresh[r].refresh_token, now)
    /\ UNCHANGED <<now, clients, pendingAuthorizations, authIdsIssued, authorizeQuery, authCodes,
                   issued, decide, tok>>
    /\ UNCHANGED <<varsG, varsE, varsD, varsP, revoke>>

\* the error the checks on the refresh token answer with, or "ok"
RefreshChecks(req) ==
    IF req.tokenData.client_id # req.client_id THEN "invalid_grant"
    ELSE IF req.client.user_id # req.tokenData.user_id THEN "unauthorized_client"
    ELSE "ok"

\* the checks, then createAccessToken and the response; no new refresh token
RefreshFinish(r) ==
    /\ refresh[r].pc = "checks"
    /\ LET res == RefreshChecks(refresh[r]) IN
         /\ refresh' = [refresh EXCEPT ![r].pc = "done", ![r].result = res]
         /\ issued' = IF res # "ok" THEN issued
                      ELSE issued \cup
                             {[req |-> r, code |-> NULL,
                               sub |-> refresh[r].tokenData.user_id,
                               client_id |-> refresh[r].client_id,
                               scope |-> refresh[r].tokenData.scopes,
                               exp |-> now + AccessTTL,
                               refresh_token |-> refresh[r].refresh_token]}
    /\ UNCHANGED <<now, clients, pendingAuthorizations, authIdsIssued, authorizeQuery, authCodes,
                   refreshTokens, decide, tok>>
    /\ UNCHANGED <<varsG, varsE, varsD, varsP, revoke>>

\* revokeClient -> revokeOAuthClient, first update: oauth_clients set revoked
\* where client_id = c and user_id = u
RevokeClient(u, c) ==
    /\ <<u, c>> \notin revoke
    /\ clients' = IF clients[c] # NoRow /\ clients[c].user_id = u
                  THEN [clients EXCEPT ![c].revoked = TRUE] ELSE clients
    /\ revoke' = revoke \cup {<<u, c>>}
    /\ UNCHANGED <<now, pendingAuthorizations, authIdsIssued, authorizeQuery, authCodes,
                   refreshTokens, issued, decide, tok>>
    /\ UNCHANGED <<varsG, varsE, varsD, varsP, refresh>>

\* revokeOAuthClient, second update: refresh_tokens set revoked where
\* client_id = c and user_id = u
RevokeClientTokens(u, c) ==
    /\ <<u, c>> \in revoke
    /\ refreshTokens' = [t \in RefreshIds |->
          IF refreshTokens[t] # NoRow /\ refreshTokens[t].client_id = c
                /\ refreshTokens[t].user_id = u
          THEN [refreshTokens[t] EXCEPT !.revoked = TRUE]
          ELSE refreshTokens[t]]
    /\ revoke' = revoke \ {<<u, c>>}
    /\ UNCHANGED <<now, clients, pendingAuthorizations, authIdsIssued, authorizeQuery, authCodes,
                   issued, decide, tok>>
    /\ UNCHANGED <<varsG, varsE, varsD, varsP, refresh>>

\* ------------------------------------------------------------------ the tool registry (EndpointManager)

\* the keys of PAYMENT_TOOLS
ReservedTools ==
    {"get_balance", "create_balance_account", "get_payment_transaction",
     "verify_payment"}

\* the names add and remove are called with: the reserved names and the name
\* of an endpoint of the owner
ToolNames == ReservedTools \cup {"paid"}

\* what tells two endpoints of one name apart: the url they call
EndpointUrls == {"https://x/v1", "https://x/v2"}

\* the constructor: no endpoints, and registerPaymentTools has put every payment
\* tool into the tools Map. The endpoints Map holds under a name the endpoint
\* (its url) or nothing (NULL); the tools Map lists under a name the definition
\* of a payment tool ("payment"), the definition made from an endpoint (its
\* url), or nothing (NULL). No addEndpoint call has been made.
InitE ==
    /\ endpoints = [n \in ToolNames |-> NULL]
    /\ tools = [n \in ToolNames |-> IF n \in ReservedTools THEN "payment" ELSE NULL]
    /\ added = [name |-> NULL, url |-> NULL, result |-> NULL]

\* a registry that takes every name for a new one
HasEndpointNever(name) == FALSE

\* this.endpoints.has(endpoint.name)
HasEndpoint(name) == endpoints[name] # NULL

\* addEndpoint: throws for a name that has an endpoint, else stores the
\* endpoint and sets the tool made from it under its name
AddEndpoint(name, url) ==
    /\ IF HasEndpoint(name)
       THEN /\ added' = [name |-> name, url |-> url, result |-> "already exists"]
            /\ UNCHANGED <<endpoints, tools>>
       ELSE /\ endpoints' = [endpoints EXCEPT ![name] = url]
            /\ tools' = [tools EXCEPT ![name] = url]
            /\ added' = [name |-> name, url |-> url, result |-> "ok"]
    /\ UNCHANGED <<varsO, varsG, varsP, varsR, varsD>>

\* removeEndpoint: endpoints.delete(name) and tools.delete(name)
RemoveEndpoint(name) ==
    /\ endpoints' = [endpoints EXCEPT ![name] = NULL]
    /\ tools' = [tools EXCEPT ![name] = NULL]
    /\ UNCHANGED added
    /\ UNCHANGED <<varsO, varsG, varsP, varsR, varsD>>

\* getTools(): the names listed
ListedTools == {n \in ToolNames : tools[n] # NULL}

\* callApiEndpoint, up to the payment check: where a call by name is routed
RouteCall(endpointName, endUserId) ==
    IF endpointName \in ReservedTools
    THEN IF endUserId = NULL
         THEN "User authentication required for payment tools"
         ELSE "executePaymentTool"
    ELSE IF ~HasEndpoint(endpointName) THEN "not found"
    ELSE "endpoint"

\* ------------------------------------------------------------------ the ledger (module payment_system)

\* the tools of the registry by name: endpoint id, price_per_call (in the
\* coin's smallest unit), the developer wallet that is paid, and the developer
\* whose server exposes the tool
Endpoints ==
    [paid |-> [id |-> "paid", price |-> 2, developer_wallet |-> "dev",
               developer_id |-> "dev", parameters |-> {"q"}],
     premium |-> [id |-> "premium", price |-> 2, developer_wallet |-> "dev",
                  developer_id |-> "dev", parameters |-> {"q"}],
     free |-> [id |-> "free", price |-> 0, developer_wallet |-> "dev",
               developer_id |-> "dev", parameters |-> {"q"}]]
Tools == DOMAIN Endpoints
PaymentIds == {"pay_1", "pay_2"}
CallReqs == {"g1", "g2"}
ApproveReqs == {"ap1", "ap2"}
DepositAmounts == {1, 2}
CreditAmounts == {2}
MaxDeposited == 3
MaxCredited == 4

\* the Endpoint object of a tool on the ledger
OnChainEndpoint(tool) ==
    [active |-> TRUE, price_per_call |-> Endpoints[tool].price,
     owner |-> Endpoints[tool].developer_wallet]

NoAccount == [account |-> FALSE, total_deposited |-> 0, total_spent |-> 0]

\* create_balance: a shared UserBalance object with both totals at zero
CreateBalance(u) ==
    /\ ~ledger[u].account
    /\ ledger' = [ledger EXCEPT ![u] =
                     [account |-> TRUE, total_deposited |-> 0, total_spent |-> 0]]
    /\ UNCHANGED <<settled, txCount, payments, balances, calls, approvals, credited>>
    /\ UNCHANGED <<varsO, varsG, varsE, varsD, varsR>>

\* deposit_funds, sent by the owner of the balance with a coin of value amount
DepositFunds(u, amount) ==
    /\ ledger[u].account
    /\ amount > 0
    /\ ledger[u].total_deposited + amount <= MaxDeposited
    /\ ledger' = [ledger EXCEPT ![u].total_deposited = @ + amount]
    /\ UNCHANGED <<settled, txCount, payments, balances, calls, approvals, credited>>
    /\ UNCHANGED <<varsO, varsG, varsE, varsD, varsR>>

\* a ledger whose pay_for_endpoint records the spending without comparing it
\* with the deposits
PayForEndpointUnchecked(user_balance, endpoint, amount) ==
    IF ~endpoint.active \/ ~(amount >= endpoint.price_per_call)
    THEN [success |-> FALSE, user_balance |-> user_balance]
    ELSE [success |-> TRUE,
          user_balance |->
              [user_balance EXCEPT !.total_spent = user_balance.total_spent + amount]]

\* pay_for_endpoint: one transaction; a failed assert aborts it and leaves the
\* UserBalance as it was
PayForEndpoint(user_balance, endpoint, amount) ==
    IF \/ ~endpoint.active
       \/ ~(amount >= endpoint.price_per_call)
       \/ ~(user_balance.total_deposited >= user_balance.total_spent + amount)
    THEN [success |-> FALSE, user_balance |-> user_balance]
    ELSE [success |-> TRUE,
          user_balance |->
              [user_balance EXCEPT !.total_spent = user_balance.total_spent + amount]]

\* an executor whose result carries no digest
TxDigestMissing(executed) == 0

\* result.digest of signAndExecuteTransaction: the digest of the transaction,
\* a new one for each transaction the ledger has executed
TxDigest(executed) == executed + 1

\* a balance reader that reports an account for every user
GetUserOnChainBalanceAlways(u) ==
    [has_balance_account |-> TRUE,
     balance |-> ledger[u].total_deposited - ledger[u].total_spent]

\* getUserOnChainBalance: the UserBalance object read at one moment
GetUserOnChainBalance(u) ==
    IF ~ledger[u].account
    THEN [has_balance_account |-> FALSE, balance |-> 0]
    ELSE [has_balance_account |-> TRUE,
          balance |-> ledger[u].total_deposited - ledger[u].total_spent]

\* ------------------------------------------------------------------ payment and balance repositories

\* the values of payment_transactions.status
PaymentStatuses == {"pending", "processing", "completed", "failed", "expired"}

\* getPaymentByPaymentId
GetPaymentByPaymentId(payment_id) ==
    IF payment_id \in PaymentIds THEN payments[payment_id] ELSE NoRow

\* createPaymentTransaction: a new row with a payment_id of its own, pending
CreatePaymentTransaction(payment_id, user_id, endpoint_id, to_wallet, amount) ==
    [payments EXCEPT ![payment_id] =
        [user_id |-> user_id, endpoint_id |-> endpoint_id, to_wallet |-> to_wallet,
         amount |-> amount, status |-> "pending", blockchain_tx_hash |-> 0,
         error_message |-> NULL]]

\* updatePaymentStatus / updatePaymentTransaction: update ... where payment_id = id
UpdatePaymentStatus(payment_id, status, tx_hash) ==
    IF payments[payment_id] = NoRow THEN payments
    ELSE [payments EXCEPT ![payment_id].status = status,
                          ![payment_id].blockchain_tx_hash =
                              IF tx_hash = 0 THEN @ ELSE tx_hash]

\* markPaymentFailed: the record is marked failed with the error text
MarkPaymentFailed(payment_id, error_message) ==
    IF payment_id \notin PaymentIds \/ payments[payment_id] = NoRow THEN payments
    ELSE [payments EXCEPT ![payment_id].status = "failed",
                          ![payment_id].error_message = error_message]

\* deductPayment: the user's local balance less the amount
DeductPayment(u, amount) == [balances EXCEPT ![u] = @ - amount]

\* addDeposit: the user's local balance plus the amount
AddDeposit(u, amount) == [balances EXCEPT ![u] = @ + amount]

\* manualCredit: POST of amount_sui by the authenticated user
ManualCredit(u, amount) ==
    /\ balances[u] + amount <= MaxCredited
    /\ balances' = AddDeposit(u, amount)
    /\ credited' = [credited EXCEPT ![u] = @ + amount]
    /\ UNCHANGED <<ledger, settled, txCount, payments, calls, approvals>>
    /\ UNCHANGED <<varsO, varsG, varsE, varsD, varsR>>

\* ------------------------------------------------------------------ creditDeposit

\* process.env.PLATFORM_WALLET_ADDRESS
PLATFORM_WALLET_ADDRESS == "0xab"

\* what getTransactionBlock knows of the transactions on the ledger: the status,
\* the recipient and the value, in smallest units, of each
Transactions ==
    [tx_a |-> [status |-> "success", to |-> "0xAB", value |-> 2],
     tx_b |-> [status |-> "success", to |-> "0xab", value |-> 1],
     tx_c |-> [status |-> "failed", to |-> "0xab", value |-> 2],
     tx_d |-> [status |-> "success", to |-> "0xcd", value |-> 2]]
DepositTxs == DOMAIN Transactions

\* the tx_hash values posted: the transactions of the ledger and a hash it does
\* not know
TxHashes == DepositTxs \cup {"tx_0"}

\* the amount_sui values posted, in tenths of the smallest unit (a decimal
\* string may have more than nine decimals); 0 is an absent amount_sui
AmountsSui == {0, 15, 30}

DepositReqs == {"cd1", "cd2"}

\* String.prototype.toLowerCase on the addresses in use
ToLowerCase(address) ==
    IF address = "0xAB" THEN "0xab"
    ELSE IF address = "0xCD" THEN "0xcd"
    ELSE address

\* walletService.parseAmount: the decimal part padded or cut to nine digits,
\* so what is beyond the smallest unit is dropped
ParseAmount(suiAmount) == suiAmount \div 10

\* getTransactionDetails: the details of a transaction of the ledger; it throws
\* for a digest the ledger does not know (NoRow)
GetTransactionDetails(hash) ==
    IF hash \in DepositTxs THEN Transactions[hash] ELSE NoRow

IdleDeposit ==
    [pc |-> "idle", user |-> NULL, tx_hash |-> NULL, amount_sui |-> 0,
     txDetails |-> NoRow, status_code |-> 0, message |-> NULL]

InitD ==
    /\ deposits = [k \in DepositReqs |-> IdleDeposit]
    /\ creditedTx = [h \in DepositTxs |-> 0]

DepositReturn(k, status_code, message) ==
    deposits' = [deposits EXCEPT ![k].pc = "done", ![k].status_code = status_code,
                                 ![k].message = message]

\* creditDeposit up to its first await: the user and the two body fields
CreditDeposit(k, u, tx_hash, amount_sui) ==
    /\ deposits[k].pc \in {"idle", "done"}
    /\ deposits' = [deposits EXCEPT ![k] =
          LET req == [IdleDeposit EXCEPT !.user = u, !.tx_hash = tx_hash,
                                         !.amount_sui = amount_sui]
          IN IF u = NULL
             THEN [req EXCEPT !.pc = "done", !.status_code = 401,
                              !.message = "User not authenticated"]
             ELSE IF tx_hash = NULL \/ amount_sui = 0
             THEN [req EXCEPT !.pc = "done", !.status_code = 400,
                              !.message = "tx_hash and amount_sui are required"]
             ELSE [req EXCEPT !.pc = "getTransactionDetails"]]
    /\ UNCHANGED creditedTx
    /\ UNCHANGED <<varsO, varsG, varsE, varsP, varsR>>

\* the checks on the transaction read from the ledger: the message of the 400
\* answer, or NULL when the deposit is verified
VerifyDeposit(tx_hash, txDetails, amount_sui) ==
    IF txDetails = NoRow THEN "Failed to get transaction details"
    ELSE IF txDetails.status # "success" THEN "Transaction status"
    ELSE IF ToLowerCase(txDetails.to) # ToLowerCase(PLATFORM_WALLET_ADDRESS)
    THEN "Recipient does not match platform wallet"
    ELSE IF txDetails.value < ParseAmount(amount_sui) THEN "Amount mismatch"
    ELSE NULL

\* await transactionService.getTransactionDetails(tx_hash) and the checks
CreditGetTransaction(k) ==
    LET r == deposits[k]
        txDetails == GetTransactionDetails(r.tx_hash)
        verdict == VerifyDeposit(r.tx_hash, txDetails, r.amount_sui)
    IN /\ r.pc = "getTransactionDetails"
       /\ IF verdict # NULL
          THEN DepositReturn(k, 400, verdict)
          ELSE deposits' = [deposits EXCEPT ![k].pc = "addDeposit",
                                            ![k].txDetails = txDetails]
       /\ UNCHANGED creditedTx
       /\ UNCHANGED <<varsO, varsG, varsE, varsP, varsR>>

\* await addDeposit(userId, formatAmount(actualAmount), accessToken): the value
\* of the transaction, written as a decimal of coins exact to the smallest
\* unit, is added to the local balance of the caller
CreditAddDeposit(k) ==
    LET r == deposits[k]
    IN /\ r.pc = "addDeposit"
       /\ balances[r.user] + r.txDetails.value <= MaxCredited
       /\ balances' = AddDeposit(r.user, r.txDetails.value)
       /\ credited' = [credited EXCEPT ![r.user] = @ + r.txDetails.value]
       /\ creditedTx' = [creditedTx EXCEPT ![r.tx_hash] = @ + 1]
       /\ DepositReturn(k, 200, "Deposit credited successfully")
       /\ UNCHANGED <<ledger, settled, txCount, payments, calls, approvals>>
       /\ UNCHANGED <<varsO, varsG, varsE, varsR>>

\* ------------------------------------------------------------------ the payment gate (callApiEndpoint, checkPaymentRequired)

\* the smallest units of the coin in one coin
MIST_PER_SUI == 1000000000

\* x.toFixed(digits) of an amount of coins, both as counts of smallest units:
\* the amount rounded to that many decimals of a coin
ToFixed(x, digits) ==
    LET unit == MIST_PER_SUI \div (10 ^ digits)
    IN ((2 * x + unit) \div (2 * unit)) * unit

GateResponse(status_code, message, action_required, shortfall) ==
    [status_code |-> status_code, message |-> message,
     action_required |-> action_required, shortfall |-> shortfall,
     instructions |-> (action_required = "deposit"), refunded |-> FALSE,
     payment_id |-> NULL]

IdleCall ==
    [pc |-> "idle", user |-> NULL, tool |-> NULL, ref |-> NULL, balance |-> 0,
     tx |-> 0, payment_id |-> NULL, resp |-> NoRow, submitted |-> 0,
     invoked |-> FALSE, args |-> {}]

\* a gate that never looks at the _payment_id argument
PaymentIdIgnored(ref) == FALSE

\* const paymentId = args._payment_id; if (paymentId)
PaymentIdProvided(ref) == ref # NULL

CallReturn(g, resp) ==
    calls' = [calls EXCEPT ![g].pc = "done", ![g].resp = resp]

\* a gate that takes every endpoint for a priced one
IsFreeNever(price) == FALSE

\* if (price <= 0): no payment required, checkPaymentRequired returns null
IsFree(price) == price <= 0

\* if (endpoint.id && endUserId && developerId): only then is
\* checkPaymentRequired called
GateApplies(endpoint, endUserId, developerId) ==
    endpoint.id # NULL /\ endUserId # NULL /\ developerId # NULL

\* callApiEndpoint up to the first await of checkPaymentRequired: a free
\* endpoint passes the gate at once; endUserId is NULL when the caller of
\* callApiEndpoint passes none
CallApiEndpoint(g, u, tool, ref, args) ==
    /\ calls[g].pc \in {"idle", "done"}
    /\ calls' = [calls EXCEPT ![g] =
          [IdleCall EXCEPT
              !.user = u, !.tool = tool, !.ref = ref, !.args = args,
              !.pc = IF ~GateApplies(Endpoints[tool], u, Endpoints[tool].developer_id)
                     THEN "validate"
                     ELSE IF IsFree(Endpoints[tool].price) THEN "validate"
                     ELSE IF PaymentIdProvided(ref) THEN "getPayment"
                     ELSE "getBalance"]]
    /\ UNCHANGED <<ledger, settled, txCount, payments, balances, approvals, credited>>
    /\ UNCHANGED <<varsO, varsG, varsE, varsD, varsR>>

\* a reference check that looks at the status only
ReferenceVerdictStatusOnly(payment, endUserId, endpointId) ==
    IF payment = NoRow THEN "Invalid payment_id provided"
    ELSE IF payment.status = "completed" THEN NULL
    ELSE payment.status

\* the checks on the record of a supplied _payment_id: NULL when it satisfies
\* the gate, else the message of the 402 answer (for a record that is not
\* completed the message states payment.status)
ReferenceVerdict(payment, endUserId, endpointId) ==
    IF payment = NoRow THEN "Invalid payment_id provided"
    ELSE IF payment.user_id # endUserId THEN "payment_id belongs to another user"
    ELSE IF payment.endpoint_id # endpointId THEN "payment_id is for a different endpoint"
    ELSE IF payment.status = "completed" THEN NULL
    ELSE payment.status

\* the branch of a supplied _payment_id: getPaymentByPaymentId and its checks
CallGetPayment(g) ==
    LET c == calls[g]
        verdict == ReferenceVerdict(GetPaymentByPaymentId(c.ref), c.user,
                                    Endpoints[c.tool].id)
    IN /\ c.pc = "getPayment"
       /\ IF verdict = NULL
          THEN calls' = [calls EXCEPT ![g].pc = "validate"]
          ELSE CallReturn(g, [GateResponse(402, verdict, NULL, 0) EXCEPT
                   !.payment_id = IF verdict \in PaymentStatuses THEN c.ref ELSE NULL])
       /\ UNCHANGED <<ledger, settled, txCount, payments, balances, approvals, credited>>
       /\ UNCHANGED <<varsO, varsG, varsE, varsD, varsR>>

\* no _payment_id: getUserOnChainBalance and the local comparison with the price
CallGetBalance(g) ==
    LET c == calls[g]
        userBalance == GetUserOnChainBalance(c.user)
        requiredAmount == Endpoints[c.tool].price
    IN /\ c.pc = "getBalance"
       /\ IF ~userBalance.has_balance_account
          THEN CallReturn(g, GateResponse(402, "DEPOSIT REQUIRED", "deposit", 0))
          ELSE IF userBalance.balance < requiredAmount
          THEN CallReturn(g, GateResponse(402, "INSUFFICIENT BALANCE", "deposit",
                              ToFixed(requiredAmount - userBalance.balance, 4)))
          ELSE calls' = [calls EXCEPT ![g].pc = "pay",
                                      ![g].balance = userBalance.balance]
       /\ UNCHANGED <<ledger, settled, txCount, payments, balances, approvals, credited>>
       /\ UNCHANGED <<varsO, varsG, varsE, varsD, varsR>>

\* executeAutomaticPayment: the transaction calling pay_for_endpoint; it throws
\* when the transaction cannot be submitted or its status is not success
CallPay(g) ==
    LET c == calls[g]
        amount == Endpoints[c.tool].price
        result == PayForEndpoint(ledger[c.user], OnChainEndpoint(c.tool), amount)
    IN /\ c.pc = "pay"
       /\ \E submitted \in BOOLEAN :
            IF submitted /\ result.success
            THEN /\ ledger' = [ledger EXCEPT ![c.user] = result.user_balance]
                 /\ settled' = [settled EXCEPT ![c.user] = @ + amount]
                 /\ txCount' = txCount + 1
                 /\ calls' = [calls EXCEPT ![g].pc = "create",
                                           ![g].tx = TxDigest(txCount),
                                           ![g].submitted = @ + 1]
            ELSE /\ CallReturn(g, GateResponse(500,
                         IF submitted THEN "Transaction failed" ELSE "not submitted",
                         NULL, 0))
                 /\ UNCHANGED <<ledger, settled, txCount, credited>>
       /\ UNCHANGED <<payments, balances, approvals, credited>>
       /\ UNCHANGED <<varsO, varsG, varsE, varsD, varsR>>

\* createPaymentTransaction after the transfer; a throw ends in the 500 answer
CallCreate(g) ==
    LET c == calls[g]
        used == {p \in PaymentIds : payments[p] # NoRow}
    IN /\ c.pc = "create"
       /\ \/ /\ used # PaymentIds
             /\ payments' = CreatePaymentTransaction(
                                Fresh(PaymentIds, used), c.user, c.tool,
                                Endpoints[c.tool].developer_wallet,
                                Endpoints[c.tool].price)
             /\ calls' = [calls EXCEPT ![g].pc = "complete",
                                       ![g].payment_id = Fresh(PaymentIds, used)]
          \/ /\ CallReturn(g, GateResponse(500, "Payment execution failed", NULL, 0))
             /\ UNCHANGED payments
       /\ UNCHANGED <<ledger, settled, txCount, balances, approvals, credited>>
       /\ UNCHANGED <<varsO, varsG, varsE, varsD, varsR>>

\* updatePaymentStatus(payment_id, COMPLETED, txHash); then the gate is passed
CallComplete(g) ==
    LET c == calls[g]
    IN /\ c.pc = "complete"
       /\ \/ /\ payments' = UpdatePaymentStatus(c.payment_id, "completed", c.tx)
             /\ calls' = [calls EXCEPT ![g].pc = "validate"]
          \/ /\ CallReturn(g, GateResponse(500, "Payment execution failed", NULL, 0))
             /\ UNCHANGED payments
       /\ UNCHANGED <<ledger, settled, txCount, balances, approvals, credited>>
       /\ UNCHANGED <<varsO, varsG, varsE, varsD, varsR>>

\* an endpoint manager that asks for no parameter
MissingRequiredNone(endpoint, args) == {}

\* for (const param of endpoint.parameters)
\*   if (param.required !== false && !(param.name in args)): the parameters of
\* the endpoint, all of them required, that args does not name
MissingRequired(endpoint, args) == {p \in endpoint.parameters : p \notin args}

\* the gate answered null: the required parameters are validated, and a call
\* that names them all makes the outbound request, of which processResponse
\* builds the answer {success, status_code, data, message}; the answer to a
\* missing parameter has no status_code
CallInvoke(g) ==
    /\ calls[g].pc = "validate"
    /\ IF MissingRequired(Endpoints[calls[g].tool], calls[g].args) # {}
       THEN CallReturn(g, GateResponse(0, "Missing required parameter", NULL, 0))
       ELSE calls' = [calls EXCEPT ![g].pc = "done", ![g].invoked = TRUE,
                                   ![g].resp = GateResponse(200, "ok", NULL, 0)]
    /\ UNCHANGED <<ledger, settled, txCount, payments, balances, approvals, credited>>
    /\ UNCHANGED <<varsO, varsG, varsE, varsD, varsR>>

\* ------------------------------------------------------------------ approve_payment (executeApprovePayment)

IdleApprove ==
    [pc |-> "idle", user |-> NULL, payment_id |-> NULL, payment |-> NoRow,
     tx |-> 0, result |-> NULL, deducted |-> 0, transferred |-> 0, refunded |-> 0]

\* the tool is called by userId with args.payment_id; a slot carries one call
ApprovePayment(a, u, payment_id) ==
    /\ approvals[a].pc = "idle"
    /\ approvals' = [approvals EXCEPT ![a] =
          [IdleApprove EXCEPT !.user = u, !.payment_id = payment_id,
                              !.pc = "getPayment"]]
    /\ UNCHANGED <<ledger, settled, txCount, payments, balances, calls, credited>>
    /\ UNCHANGED <<varsO, varsG, varsE, varsD, varsR>>

\* getPaymentByPaymentId and the three checks; each throws to the outer catch
ApproveGetPayment(a) ==
    LET r == approvals[a]
        payment == GetPaymentByPaymentId(r.payment_id)
    IN /\ r.pc = "getPayment"
       /\ approvals' = [approvals EXCEPT
              ![a].payment = payment,
              ![a].pc = IF payment = NoRow THEN "catch"
                        ELSE IF payment.user_id # r.user THEN "catch"
                        ELSE IF payment.status # "pending" THEN "catch"
                        ELSE "getBalance"]
       /\ UNCHANGED <<ledger, settled, txCount, payments, balances, calls, credited>>
       /\ UNCHANGED <<varsO, varsG, varsE, varsD, varsR>>

\* getOrCreateBalance and the comparison with the amount
ApproveGetBalance(a) ==
    LET r == approvals[a]
    IN /\ r.pc = "getBalance"
       /\ approvals' = [approvals EXCEPT
              ![a].pc = IF balances[r.user] < r.payment.amount THEN "done" ELSE "deduct",
              ![a].result = IF balances[r.user] < r.payment.amount
                            THEN "insufficient_balance" ELSE NULL]
       /\ UNCHANGED <<ledger, settled, txCount, payments, balances, calls, credited>>
       /\ UNCHANGED <<varsO, varsG, varsE, varsD, varsR>>

\* deductPayment(userId, payment.amount_eth)
ApproveDeduct(a) ==
    LET r == approvals[a]
    IN /\ r.pc = "deduct"
       /\ balances' = DeductPayment(r.user, r.payment.amount)
       /\ approvals' = [approvals EXCEPT ![a].pc = "processing",
                                         ![a].deducted = @ + 1]
       /\ UNCHANGED <<ledger, settled, txCount, payments, calls, credited>>
       /\ UNCHANGED <<varsO, varsG, varsE, varsD, varsR>>

\* updatePaymentTransaction(payment_id, {status: PROCESSING})
ApproveProcessing(a) ==
    LET r == approvals[a]
    IN /\ r.pc = "processing"
       /\ payments' = UpdatePaymentStatus(r.payment_id, "processing", 0)
       /\ approvals' = [approvals EXCEPT ![a].pc = "transfer"]
       /\ UNCHANGED <<ledger, settled, txCount, balances, calls, credited>>
       /\ UNCHANGED <<varsO, varsG, varsE, varsD, varsR>>

\* walletService.transfer from the platform wallet to payment.to_wallet
ApproveTransfer(a) ==
    LET r == approvals[a]
    IN /\ r.pc = "transfer"
       /\ \/ /\ txCount' = txCount + 1
             /\ approvals' = [approvals EXCEPT ![a].pc = "wait",
                                               ![a].tx = TxDigest(txCount),
                                               ![a].transferred = @ + 1]
          \/ /\ approvals' = [approvals EXCEPT ![a].pc = "refund"]
             /\ UNCHANGED txCount
       /\ UNCHANGED <<ledger, settled, payments, balances, calls, credited>>
       /\ UNCHANGED <<varsO, varsG, varsE, varsD, varsR>>

\* walletService.waitForTransaction(txHash)
ApproveWait(a) ==
    LET r == approvals[a]
    IN /\ r.pc = "wait"
       /\ \E confirmed \in BOOLEAN :
            approvals' = [approvals EXCEPT
                ![a].pc = IF confirmed THEN "complete" ELSE "refund"]
       /\ UNCHANGED <<ledger, settled, txCount, payments, balances, calls, credited>>
       /\ UNCHANGED <<varsO, varsG, varsE, varsD, varsR>>

\* updatePaymentTransaction(payment_id, {status: COMPLETED, blockchain_tx_hash})
ApproveComplete(a) ==
    LET r == approvals[a]
    IN /\ r.pc = "complete"
       /\ \/ /\ payments' = UpdatePaymentStatus(r.payment_id, "completed", r.tx)
             /\ approvals' = [approvals EXCEPT ![a].pc = "done",
                                               ![a].result = "completed"]
          \/ /\ approvals' = [approvals EXCEPT ![a].pc = "refund"]
             /\ UNCHANGED payments
       /\ UNCHANGED <<ledger, settled, txCount, balances, calls, credited>>
       /\ UNCHANGED <<varsO, varsG, varsE, varsD, varsR>>

\* an inner catch that marks the payment failed without the refund
ApproveRefundOmitted(a) ==
    /\ approvals[a].pc = "refund"
    /\ approvals' = [approvals EXCEPT ![a].pc = "markFailed"]
    /\ UNCHANGED <<ledger, settled, txCount, payments, balances, credited, calls>>
    /\ UNCHANGED <<varsO, varsG, varsE, varsD, varsR>>

\* the inner catch: addDeposit(userId, payment.amount_eth)
ApproveRefund(a) ==
    LET r == approvals[a]
    IN /\ r.pc = "refund"
       /\ balances' = AddDeposit(r.user, r.payment.amount)
       /\ approvals' = [approvals EXCEPT ![a].pc = "markFailed",
                                         ![a].refunded = @ + 1]
       /\ UNCHANGED <<ledger, settled, txCount, payments, calls, credited>>
       /\ UNCHANGED <<varsO, varsG, varsE, varsD, varsR>>

\* the inner catch: markPaymentFailed(payment_id, ...) and the refunded answer
ApproveMarkFailed(a) ==
    LET r == approvals[a]
    IN /\ r.pc = "markFailed"
       /\ payments' = MarkPaymentFailed(r.payment_id, "Blockchain transaction failed")
       /\ approvals' = [approvals EXCEPT ![a].pc = "done", ![a].result = "refunded"]
       /\ UNCHANGED <<ledger, settled, txCount, balances, calls, credited>>
       /\ UNCHANGED <<varsO, varsG, varsE, varsD, varsR>>

\* the outer catch: markPaymentFailed(args.payment_id, error.message), rethrow
ApproveCatch(a) ==
    LET r == approvals[a]
    IN /\ r.pc = "catch"
       /\ payments' = MarkPaymentFailed(r.payment_id, "Payment failed")
       /\ approvals' = [approvals EXCEPT ![a].pc = "done", ![a].result = "error"]
       /\ UNCHANGED <<ledger, settled, txCount, balances, calls, credited>>
       /\ UNCHANGED <<varsO, varsG, varsE, varsD, varsR>>

InitP ==
    /\ ledger = [u \in Principals |-> NoAccount]
    /\ settled = [u \in Principals |-> 0]
    /\ txCount = 0
    /\ payments = [p \in PaymentIds |-> NoRow]
    /\ balances = [u \in Principals |-> 0]
    /\ credited = [u \in Principals |-> 0]
    /\ calls = [g \in CallReqs |-> IdleCall]
    /\ approvals = [a \in ApproveReqs |-> IdleApprove]

\* ------------------------------------------------------------------ token codec and auth gate

JWT_ISSUER == "http://localhost:3000"
Issuers == {JWT_ISSUER, "https://other"}
\* the key a token is signed with: JWT_SECRET, or some other key
SigningKeys == {"JWT_SECRET", "other-key"}
\* the aud claim, a string or an array of strings, as the set of its values
Audiences == {{}, {"mcp"}, {"other"}, {"mcp", "other"}}
\* the type claim, NULL when the token has none
TokenTypes == {"access", "refresh", NULL}
\* the scope claim, split on " "
ScopeSets == {{"mcp:tools", "mcp:resources"}, {"mcp:tools"}, {"mcp:resources"}}
\* auth.users: the principals, and a subject with no user behind it
Subjects == Principals \cup {"deleted-user"}
ExpiryTimes == {1, 2}

Tokens ==
    [key : SigningKeys, iss : Issuers, aud : Audiences, exp : ExpiryTimes,
     type : TokenTypes, scope : ScopeSets, sub : Subjects, client_id : {"mcp_1"}]

NoToken == [null |-> TRUE]

\* the Authorization header: absent, of another scheme, or "Bearer <token>"
Headers ==
    {[scheme |-> NULL, token |-> NoToken], [scheme |-> "Basic", token |-> NoToken]}
        \cup {[scheme |-> "Bearer", token |-> t] : t \in Tokens}

\* jwt.verify(token, JWT_SECRET, {issuer, audience: "mcp"}): the signature, the
\* expiry, the audience and the issuer; it throws on the first that fails
JwtVerify(token, t) ==
    /\ token.key = "JWT_SECRET"
    /\ ~(t >= token.exp)
    /\ "mcp" \in token.aud
    /\ token.iss = JWT_ISSUER

\* a codec that verifies signature, expiry and issuer, and any audience
VerifyAccessTokenAnyAudience(token, t) ==
    /\ token.key = "JWT_SECRET"
    /\ ~(t >= token.exp)
    /\ token.iss = JWT_ISSUER
    /\ ~(token.type # NULL /\ token.type # "access")

\* verifyAccessToken: the decoded claims are returned (TRUE) or null (FALSE)
VerifyAccessToken(token, t) ==
    /\ JwtVerify(token, t)
    /\ ~(token.type # NULL /\ token.type # "access")
    /\ token.aud # {}
    /\ "mcp" \in token.aud

\* the reason a token fails verification, in the order jwt.verify and
\* verifyAccessToken make their checks: the signature, the expiry, the audience,
\* the issuer (a reason of its own, here NULL), the type; NULL for a token that
\* verifies
FailureReason(token, t) ==
    IF token.key # "JWT_SECRET" THEN "bad_signature"
    ELSE IF t >= token.exp THEN "expired"
    ELSE IF "mcp" \notin token.aud THEN "bad_audience"
    ELSE IF token.iss # JWT_ISSUER THEN NULL
    ELSE IF token.type # NULL /\ token.type # "access" THEN "wrong_type"
    ELSE NULL

\* a scope check that lets every token through
HasRequiredScopesAlways(scope, required) == TRUE

\* hasRequiredScopes(decoded.scope, required)
HasRequiredScopes(scope, required) == \A r \in required : r \in scope

\* res.status(status).json({error, error_description}), or next() with the
\* user, the scopes and the client id attached to the request
Response(status, error, error_description, token) ==
    [status |-> status, error |-> error, error_description |-> error_description,
     user |-> IF status = 200 THEN token.sub ELSE NULL,
     scopes |-> IF status = 200 THEN token.scope ELSE {},
     clientId |-> IF status = 200 THEN token.client_id ELSE NULL]

\* verifyMCPToken: the answer to a request carrying the header h at time t
VerifyMCPToken(h, t) ==
    IF h.scheme = NULL
    THEN Response(401, "unauthorized", "Authorization required for MCP access",
                  h.token)
    ELSE IF h.scheme # "Bearer"
    THEN Response(401, "invalid_token", "Invalid authorization header format",
                  h.token)
    ELSE IF ~VerifyAccessToken(h.token, t)
    THEN Response(401, "invalid_token", "Token validation failed", h.token)
    ELSE IF h.token.exp < t
    THEN Response(401, "invalid_token", "Token has expired", h.token)
    ELSE IF ~HasRequiredScopes(h.token.scope, {"mcp:tools"})
    THEN Response(403, "insufficient_scope", "Token lacks required mcp:tools scope",
                  h.token)
    ELSE IF h.token.sub \notin Principals
    THEN Response(401, "invalid_token", "Token user not found", h.token)
    ELSE Response(200, NULL, NULL, h.token)

IdleGate == [header |-> [scheme |-> NULL, token |-> NoToken], resp |-> NoRow]

InitG == gate = IdleGate

\* an MCP request arrives and passes through verifyMCPToken
MCPRequest(h) ==
    /\ gate' = [header |-> h, resp |-> VerifyMCPToken(h, now)]
    /\ UNCHANGED <<varsO, varsP, varsR, varsE, varsD>>

NextGate ==
    \/ Tick
    \/ \E h \in Headers : MCPRequest(h)

Init == InitO /\ InitG /\ InitP /\ InitR /\ InitE /\ InitD

SpecGate == Init /\ [][NextGate]_vars

\* C4: a token whose audience is not the resource's own identifier "mcp" is
\* rejected by the auth gate, even when its signature and expiry are valid.
C4_AudiencePinned ==
    (gate.resp # NoRow /\ gate.header.scheme = "Bearer"
        /\ "mcp" \notin gate.header.token.aud)
       => (gate.resp.status = 401 /\ gate.resp.user = NULL)

\* a token valid in everything but its audience has been refused
C4_Witness ==
    /\ gate.resp # NoRow
    /\ gate.header.scheme = "Bearer"
    /\ gate.header.token.aud = {"other"}
    /\ gate.header.token.key = "JWT_SECRET"
    /\ gate.header.token.iss = JWT_ISSUER
    /\ gate.header.token.exp > now
    /\ gate.header.token.type = "access"
    /\ "mcp:tools" \in gate.header.token.scope
    /\ gate.header.token.sub \in Principals
    /\ gate.resp.status = 401


\* C26: when token verification fails at the auth gate, the 401 answer carries
\* the specific reason: the answer to a token that failed for one of the reasons
\* expired, bad_signature, bad_audience, wrong_type differs from the answer the
\* gate gives at the same time to a token that fails for another of them.
C26_SpecificReason ==
    \A t \in 0..now, h \in Headers :
        (/\ gate.resp # NoRow
         /\ gate.header.scheme = "Bearer" /\ h.scheme = "Bearer"
         /\ gate.resp = VerifyMCPToken(gate.header, t)
         /\ FailureReason(gate.header.token, t) # NULL
         /\ FailureReason(h.token, t) # NULL
         /\ FailureReason(h.token, t) # FailureReason(gate.header.token, t))
          => VerifyMCPToken(h, t) # gate.resp

\* C27: a request passes the auth gate, with the principal, the scopes and the
\* client id of its token attached, only if it carries a bearer token that
\* verifies and has the mcp:tools scope; a missing or malformed header or a token
\* that does not verify is answered 401, and a token that verifies but lacks
\* mcp:tools is answered 403 insufficient_scope. The answer on record was given
\* at some time t up to now, and the token is judged at that time.
C27_GatePassesOnlyValidScoped ==
    gate.resp # NoRow =>
      \E t \in 0..now :
        LET h == gate.header
            verified == h.scheme = "Bearer" /\ VerifyAccessToken(h.token, t)
        IN
        /\ gate.resp = VerifyMCPToken(h, t)
        /\ gate.resp.status = 200
              => /\ verified
                 /\ "mcp:tools" \in h.token.scope
                 /\ gate.resp.user = h.token.sub
                 /\ gate.resp.scopes = h.token.scope
                 /\ gate.resp.clientId = h.token.client_id
        /\ ~verified => gate.resp.status = 401
        /\ (verified /\ "mcp:tools" \notin h.token.scope)
              => /\ gate.resp.status = 403
                 /\ gate.resp.error = "insufficient_scope"
        /\ gate.resp.status # 200
              => /\ gate.resp.user = NULL
                 /\ gate.resp.scopes = {}
                 /\ gate.resp.clientId = NULL

\* a token that verifies and carries only mcp:resources was answered 403
C27_Witness ==
    /\ gate.resp # NoRow
    /\ gate.header.scheme = "Bearer"
    /\ VerifyAccessToken(gate.header.token, now)
    /\ gate.header.token.scope = {"mcp:resources"}
    /\ gate.header.token.sub \in Principals
    /\ gate.resp.status = 403

\* ------------------------------------------------------------------ the registry under add and remove

NextRegistry ==
    \/ \E name \in ToolNames, url \in EndpointUrls : AddEndpoint(name, url)
    \/ \E name \in ToolNames : RemoveEndpoint(name)

SpecRegistry == Init /\ [][NextRegistry]_vars

\* C30: the reserved payment tools are always available: whatever endpoints were
\* added and removed, under reserved names too, every reserved name is listed
\* and a call to it by an authenticated principal runs the payment tool.
C30_ReservedAlwaysAvailable ==
    \A n \in ReservedTools :
        /\ n \in ListedTools
        /\ \A u \in Principals : RouteCall(n, u) = "executePaymentTool"

NextDeposit ==
    \/ \E k \in DepositReqs, u \in Principals, tx_hash \in TxHashes,
          amount_sui \in AmountsSui : CreditDeposit(k, u, tx_hash, amount_sui)
    \/ \E k \in DepositReqs : CreditGetTransaction(k)
    \/ \E k \in DepositReqs : CreditAddDeposit(k)

SpecDeposit == Init /\ [][NextDeposit]_vars

\* C39: each deposit transaction of the ledger is credited to a local balance
\* at most once: posting a verified tx_hash again, by the same user or another,
\* raises no balance a second time.
C39_DepositCreditedOnce ==
    \A h \in DepositTxs : creditedTx[h] <= 1

\* ------------------------------------------------------------------ the payment gate under concurrent calls

\* the calls made: <<endUserId, tool, args._payment_id, the parameters of the
\* tool named in args>>
CallRequests ==
    {<<"u1", "paid", NULL, {"q"}>>,        \* a funded caller, no reference
     <<"u1", "free", NULL, {"q"}>>,        \* a free tool
     <<"u2", "paid", NULL, {"q"}>>,        \* a caller with no ledger account
     <<NULL, "paid", NULL, {"q"}>>,        \* no endUserId
     <<"u1", "paid", "pay_1", {"q"}>>,     \* the caller's own record
     <<"u2", "paid", "pay_1", {"q"}>>,     \* the record of another user
     <<"u1", "premium", "pay_1", {"q"}>>,  \* the record of another tool
     <<"u1", "paid", "pay_0", {"q"}>>,     \* no such record
     <<"u1", "paid", NULL, {}>>,           \* the required parameter left out
     <<"u1", "free", NULL, {}>>,
     <<"u1", "paid", "pay_1", {}>>}

NextPay ==
    \/ CreateBalance("u1")
    \/ \E amount \in DepositAmounts : DepositFunds("u1", amount)
    \/ \E g \in CallReqs, r \in CallRequests : CallApiEndpoint(g, r[1], r[2], r[3], r[4])
    \/ \E g \in CallReqs : CallGetPayment(g)
    \/ \E g \in CallReqs : CallGetBalance(g)
    \/ \E g \in CallReqs : CallPay(g)
    \/ \E g \in CallReqs : CallCreate(g)
    \/ \E g \in CallReqs : CallComplete(g)
    \/ \E g \in CallReqs : CallInvoke(g)

SpecPay == Init /\ [][NextPay]_vars

\* the gate when the ledger may fail to answer: every step of an accepted call
\* is taken in the end, except the answer to the settlement transaction, which
\* is the ledger's to give. The gate awaits that answer with no timer beside it.
SpecPayLive ==
    /\ SpecPay
    /\ \A g \in CallReqs : WF_vars(CallGetPayment(g))
    /\ \A g \in CallReqs : WF_vars(CallGetBalance(g))
    /\ \A g \in CallReqs : WF_vars(CallCreate(g))
    /\ \A g \in CallReqs : WF_vars(CallComplete(g))
    /\ \A g \in CallReqs : WF_vars(CallInvoke(g))

\* C29: the settlement call is bounded by a timeout: a gate run that has
\* submitted its settlement to the ledger returns in the end, with a failure if
\* the ledger never answers.
C29_SettlementReturns ==
    \A g \in CallReqs : (calls[g].pc = "pay") ~> (calls[g].pc = "done")

\* ------------------------------------------------------------------ approve_payment under concurrent approvals

NextApprove ==
    \/ CreateBalance("u1")
    \/ DepositFunds("u1", 2)
    \/ \E amount \in CreditAmounts : ManualCredit("u1", amount)
    \/ CallApiEndpoint("g1", "u1", "paid", NULL, {"q"})
    \/ CallGetBalance("g1")
    \/ CallPay("g1")
    \/ CallCreate("g1")
    \/ CallComplete("g1")
    \/ CallInvoke("g1")
    \/ \E a \in ApproveReqs, u \in Principals, payment_id \in PaymentIds :
         ApprovePayment(a, u, payment_id)
    \/ \E a \in ApproveReqs : ApproveGetPayment(a)
    \/ \E a \in ApproveReqs : ApproveGetBalance(a)
    \/ \E a \in ApproveReqs : ApproveDeduct(a)
    \/ \E a \in ApproveReqs : ApproveProcessing(a)
    \/ \E a \in ApproveReqs : ApproveTransfer(a)
    \/ \E a \in ApproveReqs : ApproveWait(a)
    \/ \E a \in ApproveReqs : ApproveComplete(a)
    \/ \E a \in ApproveReqs : ApproveRefund(a)
    \/ \E a \in ApproveReqs : ApproveMarkFailed(a)
    \/ \E a \in ApproveReqs : ApproveCatch(a)

SpecApprove == Init /\ [][NextApprove]_vars

\* C7: a gate run that carries a reference to a PaymentRecord, a completed one
\* included, never submits a ledger transfer, however often it is repeated.
C7_ReferenceNeverTransfers ==
    \A g \in CallReqs :
        calls[g].ref # NULL => (calls[g].submitted = 0 /\ calls[g].tx = 0)

\* the settled record of one transfer was presented by two calls, both were let
\* through, and the ledger still counts the one transfer
C7_Witness ==
    \E p \in PaymentIds :
        /\ payments[p] # NoRow
        /\ payments[p].status = "completed"
        /\ \A g \in CallReqs :
              /\ calls[g].ref = p
              /\ calls[g].pc = "done"
              /\ calls[g].invoked
        /\ txCount = 1
        /\ settled["u1"] = Endpoints.paid.price

\* C8: for one payment_id, whatever the interleaving of the approvals, at most
\* one local deduction and at most one ledger transfer are made.
C8_OneSettlementPerPayment ==
    \A p \in PaymentIds :
        /\ Cardinality({a \in ApproveReqs :
               approvals[a].payment_id = p /\ approvals[a].deducted > 0}) <= 1
        /\ Cardinality({a \in ApproveReqs :
               approvals[a].payment_id = p /\ approvals[a].transferred > 0}) <= 1

C10_StatusMonotonic ==
    [][\A p \in PaymentIds :
          (payments[p] # NoRow /\ payments[p].status \in {"completed", "failed"})
              => payments'[p].status = payments[p].status]_vars

\* C11: every PaymentRecord whose status is completed carries a ledger
\* transaction reference.
C11_CompletedHasTxReference ==
    \A p \in PaymentIds :
        (payments[p] # NoRow /\ payments[p].status = "completed")
            => payments[p].blockchain_tx_hash # 0

\* an approve_payment call has completed a record with the digest of its own
\* transfer
C11_Witness ==
    \E a \in ApproveReqs :
        /\ approvals[a].result = "completed"
        /\ approvals[a].tx # 0
        /\ payments[approvals[a].payment_id].status = "completed"
        /\ payments[approvals[a].payment_id].blockchain_tx_hash = approvals[a].tx

\* what the approve_payment calls of u have taken from u's local balance and
\* not given back
RECURSIVE NetDeducted(_, _)
NetDeducted(u, reqs) ==
    IF reqs = {} THEN 0
    ELSE LET a == CHOOSE x \in reqs : TRUE
             r == approvals[a]
         IN (IF r.user = u /\ r.payment # NoRow
             THEN (r.deducted - r.refunded) * r.payment.amount ELSE 0)
            + NetDeducted(u, reqs \ {a})

\* C12: a settlement whose ledger submission failed has put back what it
\* deducted when it returns: the payer's local balance is what the deposits
\* credited, less what the other settlements hold.
C12_DeductionReversed ==
    /\ \A a \in ApproveReqs :
          (approvals[a].pc = "done" /\ approvals[a].result = "refunded")
              => (approvals[a].deducted = 1 /\ approvals[a].refunded = 1)
    /\ \A u \in Principals :
          balances[u] = credited[u] - NetDeducted(u, ApproveReqs)

\* the transfer of an approval threw after the deduction, and the payer has
\* the whole credited amount again
C12_Witness ==
    \E a \in ApproveReqs :
        /\ approvals[a].pc = "done"
        /\ approvals[a].result = "refunded"
        /\ approvals[a].transferred = 0
        /\ approvals[a].deducted = 1
        /\ \A b \in ApproveReqs \ {a} : approvals[b].pc = "idle"
        /\ credited[approvals[a].user] > 0
        /\ balances[approvals[a].user] = credited[approvals[a].user]

\* C13: a gate run whose ledger transfer threw answers 500, never 402, and the
\* answer says refunded: true.
C13_TransferFailureAnswer ==
    \A g \in CallReqs :
        (calls[g].pc = "done"
            /\ calls[g].resp.message \in {"Transaction failed", "not submitted"})
          => (calls[g].resp.status_code = 500 /\ calls[g].resp.refunded)

\* C14: a call of a priced tool reaches the outbound request only when, in that
\* call, the gate found a matching completed PaymentRecord or completed a
\* settlement.
C14_GateBeforeInvoke ==
    \A g \in CallReqs :
        (calls[g].invoked /\ Endpoints[calls[g].tool].price > 0)
          => \/ /\ calls[g].ref \in PaymentIds
                /\ payments[calls[g].ref] # NoRow
                /\ payments[calls[g].ref].status = "completed"
                /\ payments[calls[g].ref].user_id = calls[g].user
                /\ payments[calls[g].ref].endpoint_id = calls[g].tool
             \/ /\ calls[g].submitted = 1
                /\ calls[g].payment_id \in PaymentIds
                /\ payments[calls[g].payment_id].status = "completed"

\* C15: the gate step that looks at a supplied reference lets the call through
\* only when the record exists, is the caller's, is for this tool and is
\* completed; otherwise it answers 402 with the reason of the first check that
\* failed (the status, for a record that is not completed) and the tool is not
\* invoked.
C15_ReferenceChecked ==
    [][\A g \in CallReqs :
          (calls[g].pc = "getPayment" /\ calls'[g].pc # "getPayment")
            => LET c == calls[g]
                   p == GetPaymentByPaymentId(c.ref)
                   d == calls'[g]
               IN IF /\ p # NoRow
                     /\ p.user_id = c.user
                     /\ p.endpoint_id = c.tool
                     /\ p.status = "completed"
                  THEN d.pc = "validate"
                  ELSE /\ d.pc = "done"
                       /\ d.resp.status_code = 402
                       /\ ~d.invoked
                       /\ d.resp.message =
                            IF p = NoRow THEN "Invalid payment_id provided"
                            ELSE IF p.user_id # c.user
                            THEN "payment_id belongs to another user"
                            ELSE IF p.endpoint_id # c.tool
                            THEN "payment_id is for a different endpoint"
                            ELSE p.status]_vars

\* the completed record of u1 for the tool paid let u1's call of paid through
\* and was refused, with 402, to a call of another tool
C15_Witness ==
    /\ payments["pay_1"] # NoRow
    /\ payments["pay_1"].status = "completed"
    /\ \E g \in CallReqs :
          /\ calls[g].ref = "pay_1"
          /\ calls[g].tool = "paid"
          /\ calls[g].user = payments["pay_1"].user_id
          /\ calls[g].invoked
    /\ \E g \in CallReqs :
          /\ calls[g].ref = "pay_1"
          /\ calls[g].tool = "premium"
          /\ calls[g].pc = "done"
          /\ calls[g].resp.status_code = 402
          /\ calls[g].resp.message = "payment_id is for a different endpoint"
          /\ ~calls[g].invoked

\* C16: the gate step that reads the balance of a caller with no ledger account
\* answers 402 with action_required deposit and the deposit instructions; it
\* submits no transfer, creates no PaymentRecord and the tool is not invoked.
C16_NoAccountDepositRequired ==
    [][\A g \in CallReqs :
          (/\ calls[g].pc = "getBalance"
           /\ calls'[g].pc # "getBalance"
           /\ ~ledger[calls[g].user].account)
            => /\ calls'[g].pc = "done"
               /\ calls'[g].resp.status_code = 402
               /\ calls'[g].resp.message = "DEPOSIT REQUIRED"
               /\ calls'[g].resp.action_required = "deposit"
               /\ calls'[g].resp.instructions
               /\ calls'[g].submitted = 0
               /\ calls'[g].payment_id = NULL
               /\ ~calls'[g].invoked
               /\ ledger' = ledger
               /\ txCount' = txCount
               /\ payments' = payments]_vars

\* u2, who has no UserBalance object, called the priced tool and was told to
\* deposit
C16_Witness ==
    \E g \in CallReqs :
        /\ calls[g].user = "u2"
        /\ ~ledger["u2"].account
        /\ calls[g].tool = "paid"
        /\ calls[g].ref = NULL
        /\ calls[g].pc = "done"
        /\ calls[g].resp.status_code = 402
        /\ calls[g].resp.message = "DEPOSIT REQUIRED"
        /\ ~calls[g].invoked

\* C17: the gate step that finds the available balance below the price answers
\* 402 insufficient balance, reports as shortfall exactly the price less the
\* available balance, and submits no transfer.
C17_ExactShortfall ==
    [][\A g \in CallReqs :
          (/\ calls[g].pc = "getBalance"
           /\ calls'[g].pc # "getBalance"
           /\ ledger[calls[g].user].account
           /\ GetUserOnChainBalance(calls[g].user).balance
                 < Endpoints[calls[g].tool].price)
            => /\ calls'[g].pc = "done"
               /\ calls'[g].resp.status_code = 402
               /\ calls'[g].resp.message = "INSUFFICIENT BALANCE"
               /\ calls'[g].submitted = 0
               /\ txCount' = txCount
               /\ ledger' = ledger
               /\ calls'[g].resp.shortfall =
                     Endpoints[calls[g].tool].price
                        - GetUserOnChainBalance(calls[g].user).balance]_vars

\* C18: for a call of a tool with price 0 without a reference the gate does
\* nothing: no balance is read, no transfer submitted, no PaymentRecord made,
\* and the call goes straight to the invocation (which a call that names every
\* required parameter reaches).
C18_FreeToolNoOp ==
    \A g \in CallReqs :
        (calls[g].pc # "idle" /\ Endpoints[calls[g].tool].price = 0
            /\ calls[g].ref = NULL)
          => /\ calls[g].pc \in {"validate", "done"}
             /\ calls[g].balance = 0
             /\ calls[g].submitted = 0
             /\ calls[g].tx = 0
             /\ calls[g].payment_id = NULL
             /\ (calls[g].pc = "done"
                     /\ MissingRequired(Endpoints[calls[g].tool], calls[g].args) = {}
                    => (calls[g].invoked /\ calls[g].resp.status_code = 200))

\* the free tool was invoked for u1 while u1 had no ledger account, no
\* transaction had been executed and no PaymentRecord existed
C18_Witness ==
    \E g \in CallReqs :
        /\ calls[g].tool = "free"
        /\ calls[g].user = "u1"
        /\ calls[g].ref = NULL
        /\ calls[g].pc = "done"
        /\ calls[g].invoked
        /\ ~ledger["u1"].account
        /\ txCount = 0
        /\ \A p \in PaymentIds : payments[p] = NoRow

\* C19: a call in which the gate settled ends with a completed PaymentRecord
\* whose payment_id is in the answer to the caller.
C19_PaymentIdReturned ==
    \A g \in CallReqs :
        (calls[g].pc = "done" /\ calls[g].invoked /\ calls[g].submitted = 1)
          => /\ calls[g].payment_id \in PaymentIds
             /\ payments[calls[g].payment_id].status = "completed"
             /\ calls[g].resp.payment_id = calls[g].payment_id

\* C33: a call of a priced tool that is rejected because args lacks a required
\* parameter has caused no ledger transfer and created no PaymentRecord.
C33_RejectedCallNotCharged ==
    \A g \in CallReqs :
        (/\ calls[g].pc = "done"
         /\ Endpoints[calls[g].tool].price > 0
         /\ calls[g].resp.message = "Missing required parameter")
          => /\ calls[g].submitted = 0
             /\ calls[g].tx = 0
             /\ calls[g].payment_id = NULL

\* C34: one settlement authorizes one paid invocation: of the calls that were let
\* through to the tool on the strength of one PaymentRecord, the call whose gate
\* run settled it or a call that presented it as reference, there is at most one.
C34_OneInvocationPerSettlement ==
    \A p \in PaymentIds :
        Cardinality({g \in CallReqs :
                        /\ calls[g].invoked
                        /\ (calls[g].ref = p \/ calls[g].payment_id = p)}) <= 1

\* C35: approve_payment called by someone who is not the payer of the record,
\* or on a record that is not pending, changes nothing: every step such a call
\* takes, from the refusal to its return, leaves the status of the record and
\* every local balance as they were.
C35_RefusedApprovalChangesNothing ==
    [][\A a \in ApproveReqs :
          (/\ approvals[a].pc = "catch"
           /\ approvals'[a] # approvals[a]
           /\ approvals[a].payment # NoRow
           /\ \/ approvals[a].payment.user_id # approvals[a].user
              \/ approvals[a].payment.status # "pending")
            => /\ payments'[approvals[a].payment_id].status
                    = payments[approvals[a].payment_id].status
               /\ balances' = balances
      ]_vars

\* C36: approve_payment puts the deduction back only when no ledger transfer
\* took effect: no approval has both had its transfer executed on the ledger
\* and refunded the payer.
C36_NoRefundAfterTransfer ==
    \A a \in ApproveReqs :
        ~(approvals[a].transferred >= 1 /\ approvals[a].refunded >= 1)

\* C37: whenever the ledger transfer of a gate run is confirmed, the gate
\* returns with a completed PaymentRecord carrying the reference of that
\* transaction and lets the call go on: no gate run has moved the funds and
\* returned a failure with no completed record.
C37_TransferLeavesCompletedRecord ==
    \A g \in CallReqs :
        (calls[g].submitted = 1 /\ calls[g].pc \in {"validate", "done"})
          => /\ \E p \in PaymentIds :
                   /\ payments[p] # NoRow
                   /\ payments[p].status = "completed"
                   /\ payments[p].blockchain_tx_hash = calls[g].tx
             /\ (calls[g].pc = "done" => calls[g].resp.status_code # 500)

\* ------------------------------------------------------------------ the authorization server

\* the token requests a client sends: the parameters of a well-formed exchange of
\* code c1 by client mcp_1, and that request with one parameter changed
GoodTokenRequest ==
    [code |-> "c1", redirect_uri |-> "https://a/cb", client_id |-> "mcp_1",
     client_secret |-> SecretOf["mcp_1"], code_verifier |-> 1]

TokenRequests ==
    {GoodTokenRequest,
     [GoodTokenRequest EXCEPT !.code = "c2"],
     [GoodTokenRequest EXCEPT !.redirect_uri = "https://b/cb"],
     [GoodTokenRequest EXCEPT !.client_id = "dcr_1",
                              !.client_secret = SecretOf["dcr_1"]],
     [GoodTokenRequest EXCEPT !.client_secret = SecretOf["dcr_1"]],
     [GoodTokenRequest EXCEPT !.code_verifier = 2],
     [GoodTokenRequest EXCEPT !.code_verifier = 0]}

TokenActions ==
    \/ \E t \in TokenReqs, q \in TokenRequests :
            TokenStart(t, q.code, q.redirect_uri, q.client_id, q.client_secret,
                       q.code_verifier)
    \/ \E t \in TokenReqs : TokenVerifyClient(t)
    \/ \E t \in TokenReqs : TokenConsumeSelect(t)
    \/ \E t \in TokenReqs : TokenConsumeUpdate(t)
    \/ \E t \in TokenReqs : TokenFinish(t)

\* the token endpoint: registered clients, one authorization at a time, and
\* concurrent exchanges
NextToken ==
    \/ Tick
    \/ RegisterClient
    \/ \E u \in Principals : GenerateClientCredentials(u)
    \/ \E st \in StateParams : Authorize({"a1"}, "code", "mcp_1", "https://a/cb", S256(1), "S256", st)
    \/ \E u \in Principals, approved \in BOOLEAN :
            DecideStart("d1", "a1", u, "mcp_1", "https://a/cb", S256(1), <<>>,
                        approved)
    \/ DecideGetClient("d1")
    \/ DecideIssue("d1")
    \/ TokenActions

SpecToken == Init /\ [][NextToken]_vars

\* the authorization endpoint: dynamic and static clients, concurrent decisions;
\* the authorizations are begun for client mcp_1, the callbacks name any client
NextAuthz ==
    \/ Tick
    \/ RegisterClient
    \/ \E u \in Principals : GenerateClientCredentials(u)
    \/ \E st \in StateParams :
            Authorize(AuthIds, "code", "mcp_1", "https://a/cb", S256(1), "S256", st)
    \/ \E rt \in {"code", "token"}, m \in {"S256", "plain"} : AuthorizeRejected(rt, m)
    \/ \E d \in DecideReqs, a \in AuthIds, u \in Principals, c \in ClientIds,
          approved \in BOOLEAN :
            DecideStart(d, a, u, c, "https://a/cb", S256(1), <<>>, approved)
    \/ \E d \in DecideReqs : DecideGetClient(d)
    \/ \E d \in DecideReqs : DecideAssign(d)
    \/ \E d \in DecideReqs : DecideReload(d)
    \/ \E d \in DecideReqs : DecideIssue(d)

SpecAuthz == Init /\ [][NextAuthz]_vars

\* ------------------------------------------------------------------ expired entries

\* the authorization endpoint left to itself: authorizations begin, some are
\* decided, the clock runs. The server has no timer and no scheduled job; the
\* steps it is sure to take are those of the requests it has accepted.
NextCleanup ==
    \/ Tick
    \/ GenerateClientCredentials("u1")
    \/ \E st \in StateParams : Authorize(AuthIds, "code", "mcp_1", "https://a/cb", S256(1), "S256", st)
    \/ \E d \in DecideReqs, a \in AuthIds :
            DecideStart(d, a, "u1", "mcp_1", "https://a/cb", S256(1), <<>>, TRUE)
    \/ \E d \in DecideReqs : DecideGetClient(d)
    \/ \E d \in DecideReqs : DecideIssue(d)

SpecCleanup ==
    /\ Init
    /\ [][NextCleanup]_vars
    /\ WF_vars(Tick)
    /\ \A d \in DecideReqs : WF_vars(DecideGetClient(d))
    /\ \A d \in DecideReqs : WF_vars(DecideIssue(d))

\* C28: every expired pending authorization and every expired authorization code
\* is eventually removed, whether or not a decide or exchange call names it again.
C28_ExpiredEventuallyRemoved ==
    /\ \A a \in AuthIds :
          (pendingAuthorizations[a] # NoRow /\ now > pendingAuthorizations[a].expiresAt)
            ~> (pendingAuthorizations[a] = NoRow)
    /\ \A c \in CodeIds :
          (authCodes[c] # NoRow /\ now > authCodes[c].expires_at)
            ~> (authCodes[c] = NoRow)

\* ------------------------------------------------------------------ refresh and revocation

\* the refresh requests made: <<refresh_token, client_id, client_secret>>
RefreshRequests ==
    {<<"rt1", "mcp_1", SecretOf["mcp_1"]>>,   \* the token's own client
     <<"rt1", "dcr_1", SecretOf["dcr_1"]>>,   \* another client
     <<"rt1", "mcp_1", SecretOf["dcr_1"]>>,   \* a wrong secret
     <<"rt2", "mcp_1", SecretOf["mcp_1"]>>}   \* a token never issued

NextRefresh ==
    \/ RegisterClient
    \/ GenerateClientCredentials("u1")
    \/ \E st \in StateParams : Authorize({"a1"}, "code", "mcp_1", "https://a/cb", S256(1), "S256", st)
    \/ \E scope \in ScopeParams :
            DecideStart("d1", "a1", "u1", "mcp_1", "https://a/cb", S256(1), scope,
                        TRUE)
    \/ DecideGetClient("d1")
    \/ DecideIssue("d1")
    \/ TokenStart("t1", GoodTokenRequest.code, GoodTokenRequest.redirect_uri,
                  GoodTokenRequest.client_id, GoodTokenRequest.client_secret,
                  GoodTokenRequest.code_verifier)
    \/ TokenVerifyClient("t1")
    \/ TokenConsumeSelect("t1")
    \/ TokenConsumeUpdate("t1")
    \/ TokenFinish("t1")
    \/ \E r \in RefreshReqs, q \in RefreshRequests : RefreshStart(r, q[1], q[2], q[3])
    \/ \E r \in RefreshReqs : RefreshVerifyClient(r)
    \/ \E r \in RefreshReqs : RefreshVerifyToken(r)
    \/ \E r \in RefreshReqs : RefreshFinish(r)
    \/ RevokeClient("u1", "mcp_1")
    \/ RevokeClientTokens("u1", "mcp_1")

SpecRefresh == Init /\ [][NextRefresh]_vars

\* C20: a refresh request that presents, with the credentials of a registered
\* client, a refresh token that is revoked or was issued to another client_id,
\* is answered invalid_grant and gets no access token.
C20_RefreshRejected ==
    \A r \in RefreshReqs :
        (/\ refresh[r].pc = "done"
         /\ refresh[r].knownClient
         /\ refreshTokens[refresh[r].refresh_token] # NoRow
         /\ \/ refresh[r].revokedAtStart
            \/ refreshTokens[refresh[r].refresh_token].client_id # refresh[r].client_id)
          => /\ refresh[r].result = "invalid_grant"
             /\ ~\E i \in issued : i.req = r

\* C21: the refresh token is not rotated. A successful refresh exchange issues
\* an access token carrying the scopes stored with the refresh token and leaves
\* the refresh token as it was; a refresh token, once issued, keeps its client,
\* user, scopes and expiry and becomes revoked only by a revocation, never by an
\* exchange; and the token lookup refuses only a token that is unknown, revoked
\* or expired.
C21_RefreshNotRotated ==
    [][/\ \A t \in RefreshIds :
             LET row == refreshTokens[t] IN
             row # NoRow =>
               /\ refreshTokens'[t] # NoRow
               /\ refreshTokens'[t].client_id = row.client_id
               /\ refreshTokens'[t].user_id = row.user_id
               /\ refreshTokens'[t].scopes = row.scopes
               /\ refreshTokens'[t].expires_at = row.expires_at
               /\ (refreshTokens'[t].revoked /\ ~row.revoked) => revoke' # revoke
       /\ \A r \in RefreshReqs :
             LET row == refreshTokens[refresh[r].refresh_token] IN
             /\ (refresh[r].pc = "checks" /\ refresh'[r].result = "ok")
                  => /\ refreshTokens' = refreshTokens
                     /\ \E i \in issued' \ issued :
                           /\ i.req = r
                           /\ i.refresh_token = refresh[r].refresh_token
                           /\ i.scope = row.scopes
             /\ (refresh[r].pc = "token" /\ refresh'[r].result = "invalid_grant")
                  => \/ row = NoRow
                     \/ row.revoked
                     \/ row.expires_at < now
      ]_vars

\* the same refresh token, issued with a narrowed scope, has been exchanged twice
C21_Witness ==
    /\ \A r \in RefreshReqs :
          /\ refresh[r].pc = "done"
          /\ refresh[r].result = "ok"
          /\ refresh[r].refresh_token = "rt1"
          /\ \E i \in issued : i.req = r /\ i.scope = <<"mcp:tools">>
    /\ ~refreshTokens["rt1"].revoked

\* C22: revocation is terminal and client verification fails for revoked
\* clients. Once a client is revoked it stays revoked, verifyOAuthClient returns
\* nothing for it whatever the secret, every code exchange and every refresh
\* exchange that verifies its client from then on ends with invalid_client, and
\* an exchange that ended with an error has issued no token.
C22_RevokedClientFails ==
    [][\A c \in ClientIds :
          (clients[c] # NoRow /\ clients[c].revoked) =>
            /\ clients'[c] # NoRow /\ clients'[c].revoked
            /\ \A secret \in Secrets : VerifyOAuthClient(c, secret) = NoRow
            /\ \A t \in TokenReqs :
                  (tok[t].pc = "verify" /\ tok[t].client_id = c
                        /\ tok'[t].pc # "verify")
                    => /\ tok'[t].pc = "done"
                       /\ tok'[t].result = "invalid_client"
                       /\ ~\E i \in issued' : i.req = t
            /\ \A r \in RefreshReqs :
                  (refresh[r].pc = "verify" /\ refresh[r].client_id = c
                        /\ refresh'[r].pc # "verify")
                    => /\ refresh'[r].pc = "done"
                       /\ refresh'[r].result = "invalid_client"
                       /\ ~\E i \in issued' : i.req = r
      ]_vars

\* after a code was issued to client mcp_1 the client was revoked, and then its
\* code exchange and its refresh exchange, both with the right secret, failed
C22_Witness ==
    /\ clients["mcp_1"] # NoRow /\ clients["mcp_1"].revoked
    /\ authCodes["c1"] # NoRow /\ ~authCodes["c1"].used
    /\ tok["t1"].pc = "done" /\ tok["t1"].result = "invalid_client"
    /\ refresh["r1"].pc = "done" /\ refresh["r1"].result = "invalid_client"
    /\ refresh["r1"].knownClient /\ refresh["r1"].client_id = "mcp_1"

\* ------------------------------------------------------------------ claims: code exchange

TokensIssuedFor(code) == {i \in issued : i.code = code}

\* C1: for every issued authorization code at most one exchange succeeds, and an
\* exchange of the code that starts after a successful one (and passes client
\* authentication) is answered invalid_grant and issues no tokens.
C1_AtMostOneExchange ==
    /\ \A c \in CodeIds : Cardinality(TokensIssuedFor(c)) <= 1
    /\ \A t \in TokenReqs :
         (tok[t].pc = "done" /\ tok[t].afterSuccess /\ tok[t].client # NoRow)
            => /\ tok[t].result = "invalid_grant"
               /\ ~\E i \in issued : i.req = t

\* C2: code consumption is atomic: of two exchanges presenting the same code, at
\* most one obtains the code from consumeAuthorizationCode.
C2_AtomicConsume ==
    \A t1, t2 \in TokenReqs :
       (t1 # t2 /\ tok[t1].authCode # NoRow /\ tok[t2].authCode # NoRow)
          => tok[t1].code # tok[t2].code

\* the exchange reached the PKCE check: the client authenticated, the code was
\* obtained, and client_id, owner and redirect_uri match the code
ReachedPkce(t) ==
    /\ tok[t].pc = "done"
    /\ tok[t].client # NoRow
    /\ tok[t].authCode # NoRow
    /\ tok[t].authCode.client_id = tok[t].client_id
    /\ tok[t].client.user_id = tok[t].authCode.user_id
    /\ tok[t].authCode.redirect_uri = tok[t].redirect_uri

\* C3: an exchange that reaches the PKCE check succeeds iff
\* base64url(sha256(code_verifier)) is the code's stored code_challenge; any
\* other verifier is answered invalid_grant and no token is issued.
C3_PkceDecidesExchange ==
    \A t \in TokenReqs :
       ReachedPkce(t) =>
          IF S256(tok[t].code_verifier) = tok[t].authCode.code_challenge
          THEN /\ tok[t].result = "ok"
               /\ \E i \in issued : i.req = t
          ELSE /\ tok[t].result = "invalid_grant"
               /\ ~\E i \in issued : i.req = t

\* both cases of C3: an exchange refused for its verifier, one accepted for it
C3_Witness ==
    /\ \E t \in TokenReqs :
          /\ ReachedPkce(t)
          /\ S256(tok[t].code_verifier) # tok[t].authCode.code_challenge
          /\ tok[t].result = "invalid_grant"
    /\ \E t \in TokenReqs :
          /\ ReachedPkce(t)
          /\ S256(tok[t].code_verifier) = tok[t].authCode.code_challenge
          /\ tok[t].result = "ok"

\* C23: a code exchange issues tokens only if the presenting client_id is the
\* code's client_id, the owner of the client is the principal who approved the
\* code and the presented redirect_uri is the code's redirect_uri; an exchange
\* that consumed a code and fails one of these ends with invalid_grant or
\* unauthorized_client and issues no tokens.
C23_ExchangeBoundToCode ==
    /\ \A i \in issued :
          i.code # NULL =>
            LET req == tok[i.req] IN
            /\ authCodes[i.code].client_id = req.client_id
            /\ req.client.user_id = authCodes[i.code].user_id
            /\ authCodes[i.code].redirect_uri = req.redirect_uri
    /\ \A t \in TokenReqs :
          (/\ tok[t].pc = "done"
           /\ tok[t].authCode # NoRow
           /\ \/ tok[t].authCode.client_id # tok[t].client_id
              \/ tok[t].client.user_id # tok[t].authCode.user_id
              \/ tok[t].authCode.redirect_uri # tok[t].redirect_uri)
            => /\ tok[t].result \in {"invalid_grant", "unauthorized_client"}
               /\ ~\E i \in issued : i.req = t

\* code c1 was consumed by two exchanges with the right verifier, one from a
\* client it was not issued to and one with another redirect_uri
C23_Witness ==
    /\ tok["t1"].pc = "done" /\ tok["t1"].authCode # NoRow
    /\ tok["t1"].authCode.client_id # tok["t1"].client_id
    /\ tok["t1"].code_verifier = 1
    /\ tok["t1"].result = "invalid_grant"
    /\ tok["t2"].pc = "done" /\ tok["t2"].authCode # NoRow
    /\ tok["t2"].authCode.client_id = tok["t2"].client_id
    /\ tok["t2"].authCode.redirect_uri # tok["t2"].redirect_uri
    /\ tok["t2"].code_verifier = 1
    /\ tok["t2"].result = "invalid_grant"

\* C32: an exchange that passed client authentication and found the code
\* unconsumed and unexpired has marked the code consumed even when one of its
\* later checks (client_id, owner, redirect_uri, PKCE) fails: the code is used
\* from then on, and every exchange that looks the code up after that failure,
\* a fully correct one included, ends with invalid_grant.
C32_FailedExchangeConsumes ==
    [][\A t1 \in TokenReqs :
          (/\ tok[t1].pc = "done"
           /\ tok[t1].authCode # NoRow
           /\ tok[t1].result # "ok")
            => /\ authCodes[tok[t1].code].used
               /\ authCodes'[tok[t1].code].used
               /\ \A t2 \in TokenReqs :
                     (/\ tok[t2].pc = "select"
                      /\ tok[t2].code = tok[t1].code
                      /\ tok'[t2].pc # "select")
                       => /\ tok'[t2].pc = "done"
                          /\ tok'[t2].result = "invalid_grant"
      ]_vars

\* exchange t1 presented code c1 with another redirect_uri and failed after
\* consuming it; exchange t2 then presented c1, unexpired, with every parameter
\* right, found no unused code and was answered invalid_grant
C32_Witness ==
    /\ tok["t1"].pc = "done" /\ tok["t1"].authCode # NoRow
    /\ tok["t1"].redirect_uri # tok["t1"].authCode.redirect_uri
    /\ tok["t1"].result = "invalid_grant"
    /\ tok["t2"].pc = "done" /\ tok["t2"].code = tok["t1"].code
    /\ tok["t2"].authCode = NoRow
    /\ tok["t2"].client # NoRow
    /\ tok["t2"].client_id = authCodes[tok["t2"].code].client_id
    /\ tok["t2"].client.user_id = authCodes[tok["t2"].code].user_id
    /\ tok["t2"].redirect_uri = authCodes[tok["t2"].code].redirect_uri
    /\ PkceMatches(tok["t2"].code_verifier, authCodes[tok["t2"].code].code_challenge)
    /\ ~IsExpired(authCodes[tok["t2"].code].expires_at, now)
    /\ tok["t2"].result = "invalid_grant"
    /\ issued = {}

\* C38: the code that decide issues for a handle is bound to the client_id,
\* the redirect_uri and the code_challenge that were presented to authorize
\* when the handle was made.
C38_CodeBoundToAuthorizeQuery ==
    \A d \in DecideReqs :
        decide[d].result = "code"
          => LET query == authorizeQuery[decide[d].auth_id]
                 row == authCodes[decide[d].code]
             IN /\ row.client_id = query.client_id
                /\ row.redirect_uri = query.redirect_uri
                /\ row.code_challenge = query.code_challenge

\* ------------------------------------------------------------------ claims: client ownership

\* C5: a client's owner, once non-null, never changes.
C5_OwnerImmutable ==
    [][\A c \in ClientIds :
          (clients[c] # NoRow /\ clients[c].user_id # NULL)
             => (clients'[c] # NoRow /\ clients'[c].user_id = clients[c].user_id)]_vars

\* an owner assignment by another principal has run against an owned client
C5_Witness ==
    \E d \in DecideReqs :
       /\ decide[d].assigned
       /\ clients[decide[d].client_id].user_id # NULL
       /\ clients[decide[d].client_id].user_id # decide[d].user

\* C6: when two different principals both approve the first authorization of the
\* same unowned dynamically registered client, exactly one of them becomes the
\* owner and gets a code; the other is answered unauthorized_client, with no code.
C6_ExactlyOneWinner ==
    \A d1, d2 \in DecideReqs :
       (/\ d1 # d2
        /\ decide[d1].pc = "done" /\ decide[d2].pc = "done"
        /\ decide[d1].assigned /\ decide[d2].assigned
        /\ decide[d1].client_id = decide[d2].client_id
        /\ decide[d1].user # decide[d2].user)
       => \E w, l \in {d1, d2} :
             /\ w # l
             /\ decide[w].result = "code"
             /\ decide[w].code # NULL
             /\ clients[decide[w].client_id].user_id = decide[w].user
             /\ authCodes[decide[w].code].user_id = decide[w].user
             /\ decide[l].result = "unauthorized_client"
             /\ decide[l].code = NULL
             /\ ~\E c \in CodeIds :
                    authCodes[c] # NoRow /\ authCodes[c].user_id = decide[l].user

C6_Witness ==
    \E d1, d2 \in DecideReqs :
       /\ decide[d1].pc = "done" /\ decide[d2].pc = "done"
       /\ decide[d1].assigned /\ decide[d2].assigned
       /\ decide[d1].client_id = decide[d2].client_id
       /\ decide[d1].user # decide[d2].user
       /\ decide[d1].result = "code"
       /\ decide[d2].result = "unauthorized_client"

\* ------------------------------------------------------------------ claims: pending authorizations

\* C24: a pending-authorization handle is consumed exactly once. Of the decide
\* calls made with one handle at most one is accepted (approved or denied); an
\* accepted handle is gone from the map, and every other call with it is
\* answered invalid_request and issues no code.
C24_HandleConsumedOnce ==
    /\ \A d \in DecideReqs :
          decide[d].pc # "idle" =>
            /\ decide[d].result # "invalid_request"
                  => pendingAuthorizations[decide[d].auth_id] = NoRow
            /\ decide[d].result = "invalid_request" => decide[d].code = NULL
    /\ \A d1, d2 \in DecideReqs :
          (/\ d1 # d2
           /\ decide[d1].pc # "idle" /\ decide[d2].pc # "idle"
           /\ decide[d1].auth_id = decide[d2].auth_id)
            => \/ decide[d1].result = "invalid_request"
               \/ decide[d2].result = "invalid_request"

\* a handle that had not expired was approved, a code was issued, and a second
\* decide call with it was refused
C24_Witness ==
    /\ now = 0
    /\ decide["d1"].auth_id = "a1" /\ decide["d1"].result = "code"
    /\ decide["d2"].auth_id = "a1" /\ decide["d2"].approved
    /\ decide["d2"].pc = "done" /\ decide["d2"].result = "invalid_request"

\* C25: expiry is terminal. A code and a handle expire ten minutes after their
\* creation and the expiry of an entry never changes; time does not run
\* backwards; a code exchange that looks the code up after its expiry ends with
\* invalid_grant and issues nothing, and a decide call that arrives after the
\* expiry of its handle is answered invalid_request and issues no code.
C25_ExpiryTerminal ==
    [][/\ now' >= now
       /\ \A c \in CodeIds :
             /\ (authCodes[c] = NoRow /\ authCodes'[c] # NoRow)
                   => authCodes'[c].expires_at = now + AuthCodeTTL
             /\ (authCodes[c] # NoRow /\ authCodes'[c] # NoRow)
                   => authCodes'[c].expires_at = authCodes[c].expires_at
       /\ \A a \in AuthIds :
             /\ (pendingAuthorizations[a] = NoRow /\ pendingAuthorizations'[a] # NoRow)
                   => pendingAuthorizations'[a].expiresAt = now + PendingTTL
             /\ (pendingAuthorizations[a] # NoRow /\ pendingAuthorizations'[a] # NoRow)
                   => pendingAuthorizations'[a].expiresAt
                         = pendingAuthorizations[a].expiresAt
       /\ \A t \in TokenReqs :
             (/\ tok[t].pc = "select" /\ tok'[t].pc # "select"
              /\ authCodes[tok[t].code] # NoRow
              /\ now > authCodes[tok[t].code].expires_at)
               => /\ tok'[t].pc = "done"
                  /\ tok'[t].result = "invalid_grant"
                  /\ ~\E i \in issued' : i.req = t
       /\ \A d \in DecideReqs :
             (/\ decide[d].pc = "idle" /\ decide'[d].pc # "idle"
              /\ pendingAuthorizations[decide'[d].auth_id] # NoRow
              /\ now > pendingAuthorizations[decide'[d].auth_id].expiresAt)
               => /\ decide'[d].pc = "done"
                  /\ decide'[d].result = "invalid_request"
                  /\ decide'[d].code = NULL
                  /\ authCodes' = authCodes
      ]_vars

\* code c1, never used, expired, and its well-formed exchange was refused
C25_Witness ==
    /\ authCodes["c1"] # NoRow /\ ~authCodes["c1"].used
    /\ now > authCodes["c1"].expires_at
    /\ tok["t1"].pc = "done"
    /\ tok["t1"].code = "c1"
    /\ tok["t1"].client_id = "mcp_1"
    /\ tok["t1"].client # NoRow
    /\ tok["t1"].redirect_uri = authCodes["c1"].redirect_uri
    /\ tok["t1"].code_verifier = 1
    /\ tok["t1"].result = "invalid_grant"

====
